---- MODULE Spec2Model ----
(***************************************************************************)
(* Model of the Plex Search and Play integration:                          *)
(*   plex_api.py  - PlexSearchAPI (connect, search, browse, on deck,       *)
(*                  recently added, by genre, collections, media URL,      *)
(*                  normalizer)                                            *)
(*   __init__.py  - entry setup and unload, service handlers, options      *)
(*                  update listener                                        *)
(*   config_flow.py - the user and players steps of the config flow        *)
(*   sensor.py    - the status sensor and the six result sensors           *)
(***************************************************************************)
EXTENDS Integers, Sequences, FiniteSets, TLC

\* ------------------------------------------------------------------ bounds
MaxSectionItems == 2
MaxLimit == 3
MaxStart == 3
MaxNames == 2
MaxResults == 7
MaxPending == 2

\* --------------------------------------------------------------- constants
ATTR_INDEX == "index"
ATTR_RATING_KEY == "rating_key"
MEDIA_TYPE_MOVIE == "movie"
MEDIA_TYPE_SHOW == "show"
MEDIA_TYPE_EPISODE == "episode"
ERROR_CANNOT_CONNECT == "cannot_connect"
ERROR_INVALID_AUTH == "invalid_auth"
ERROR_NO_RESULTS == "no_results"
EVENT_PLAYBACK_STARTED == "plex_search_play_playback_started"
EVENT_PLAYBACK_FAILED == "plex_search_play_playback_failed"
EVENT_SEARCH_STARTED == "plex_search_play_search_started"
EVENT_SEARCH_COMPLETED == "plex_search_play_search_completed"
EVENT_SEARCH_FAILED == "plex_search_play_search_failed"

None == "None"

\* ------------------------------------------------------- sequence helpers
Min(a, b) == IF a < b THEN a ELSE b
Max(a, b) == IF a > b THEN a ELSE b

\* Python's s[a:b] (negative bounds count from the end, all bounds clamp).
PyBound(len, i) == IF i < 0 THEN Max(len + i, 0) ELSE Min(i, len)
PySlice(s, a, b) ==
    LET lo == PyBound(Len(s), a)
        hi == PyBound(Len(s), b)
    IN  IF hi <= lo THEN << >> ELSE SubSeq(s, lo + 1, hi)

RECURSIVE Flatten(_)
Flatten(ss) == IF ss = << >> THEN << >> ELSE Head(ss) \o Flatten(Tail(ss))

Reverse(s) == [i \in 1..Len(s) |-> s[Len(s) + 1 - i]]

\* Sequences over S without repetition, of length at most n.
DistinctSeqs(S, n) ==
    UNION { { s \in [1..k -> S] : \A i, j \in 1..k : i # j => s[i] # s[j] } : k \in 0..n }

\* Sequences over S of length at most n.
SeqsUpTo(S, n) == UNION { [1..k -> S] : k \in 0..n }

\* ------------------------------------------------- the remote media server
\* Raw items as the client library hands them over.  cls is the Python class
\* (Movie, Show, Episode; anything else is "Other"), complete = FALSE is an
\* item on which a required attribute access raises, part is the key of the
\* first part of the first media encoding ("" when the item has none), thumb
\* the thumbnail path (None when the item has no such attribute or it is
\* None, "" when it is empty), year the release year (0 when the item has
\* none).
MovieItems == {
    [ratingKey |-> 101, title |-> "Blade Runner", year |-> 1982,
     seasonEpisode |-> "", grandparentTitle |-> "",
     cls |-> "Movie", type |-> "movie", index |-> 0,
     complete |-> TRUE, addedAt |-> "date", words |-> {"blade", "runner"},
     onDeck |-> TRUE, genre |-> "scifi",
     part |-> "/library/parts/101/file.mkv",
     thumb |-> "/library/metadata/101/thumb/1"],
    [ratingKey |-> 103, title |-> "Runner Trailer", year |-> 0,
     seasonEpisode |-> "", grandparentTitle |-> "",
     cls |-> "Other", type |-> "clip", index |-> 0,
     complete |-> TRUE, addedAt |-> "none", words |-> {"runner"},
     onDeck |-> FALSE, genre |-> "scifi",
     part |-> "",
     thumb |-> ""],
    [ratingKey |-> 104, title |-> "Blade", year |-> 1998,
     seasonEpisode |-> "", grandparentTitle |-> "",
     cls |-> "Movie", type |-> "movie", index |-> 0,
     complete |-> FALSE, addedAt |-> "date", words |-> {"blade"},
     onDeck |-> TRUE, genre |-> "drama",
     part |-> "/library/parts/104/file.mkv",
     thumb |-> "/library/metadata/104/thumb/1"] }

TVItems == {
    [ratingKey |-> 102, title |-> "Blades", year |-> 0,
     seasonEpisode |-> "S01E05", grandparentTitle |-> "Forged",
     cls |-> "Episode", type |-> "episode", index |-> 5,
     complete |-> TRUE, addedAt |-> "date", words |-> {"blade"},
     onDeck |-> TRUE, genre |-> "drama",
     part |-> "/library/parts/102/file.mkv",
     thumb |-> "/library/metadata/102/thumb/7"],
    [ratingKey |-> 105, title |-> "Runners", year |-> 2019,
     seasonEpisode |-> "", grandparentTitle |-> "",
     cls |-> "Show", type |-> "show", index |-> 0,
     complete |-> TRUE, addedAt |-> "date", words |-> {"runner"},
     onDeck |-> FALSE, genre |-> "scifi",
     part |-> "",
     thumb |-> None] }

\* The sections the server has, in the server's order; "Music" is a name the
\* server does not know.
ServerSections == << "Movies", "TV" >>
SectionNames == {"Movies", "TV", "Music"}
Queries == {"blade", "runner"}
Genres == {"scifi", "drama"}

Servers ==
    { [Movies |-> m, TV |-> t] :
        m \in DistinctSeqs(MovieItems, MaxSectionItems),
        t \in DistinctSeqs(TVItems, MaxSectionItems) }

\* server.library.section(name): raises NotFound for an unknown title.
SectionExists(name) == \E i \in 1..Len(ServerSections) : ServerSections[i] = name

\* section.all(sort=...): the full enumeration, sorted server-side on request.
RECURSIVE SortByKeyDesc(_)
SortByKeyDesc(s) ==
    IF s = << >> THEN << >>
    ELSE LET top == CHOOSE i \in 1..Len(s) : \A j \in 1..Len(s) : s[i].ratingKey >= s[j].ratingKey
             rest == [k \in 1..(Len(s) - 1) |-> IF k < top THEN s[k] ELSE s[k + 1]]
         IN  << s[top] >> \o SortByKeyDesc(rest)

SectionAll(plex, name, sort) ==
    IF sort = None THEN plex[name] ELSE SortByKeyDesc(plex[name])

\* section.search(query, limit=limit): the matching items, at most limit.
SectionSearch(plex, name, query, limit) ==
    LET Match(item) == query \in item.words
    IN  PySlice(SelectSeq(plex[name], Match), 0, limit)

\* server.library.search(query, limit=limit): every section's matches.
LibrarySearch(plex, query, limit) ==
    Flatten([i \in 1..Len(ServerSections) |-> SectionSearch(plex, ServerSections[i], query, limit)])

\* section.onDeck() and server.library.onDeck(): the items in progress.
SectionOnDeck(plex, name) ==
    LET InProgress(item) == item.onDeck
    IN  SelectSeq(plex[name], InProgress)

LibraryOnDeck(plex) ==
    Flatten([i \in 1..Len(ServerSections) |-> SectionOnDeck(plex, ServerSections[i])])

\* section.recentlyAdded(maxresults=limit): newest first, at most maxresults.
SectionRecentlyAdded(plex, name, maxresults) ==
    PySlice(Reverse(plex[name]), 0, maxresults)

LibraryRecentlyAdded(plex, maxresults) ==
    PySlice(Flatten([i \in 1..Len(ServerSections) |-> Reverse(plex[ServerSections[i]])]), 0, maxresults)

\* section.search(genre=genre, limit=limit)
SectionGenre(plex, name, genre, limit) ==
    LET InGenre(item) == item.genre = genre
    IN  PySlice(SelectSeq(plex[name], InGenre), 0, limit)

\* section.collections(): the second collection of Movies lacks its title.
SectionCollections(name) ==
    IF name = "Movies"
    THEN << [ratingKey |-> 201, title |-> "Replicants", complete |-> TRUE,
             thumb |-> "/library/collections/201/thumb/3"],
            [ratingKey |-> 202, title |-> None, complete |-> FALSE, thumb |-> None] >>
    ELSE << >>

\* ------------------------------------------------------------ PlexSearchAPI
\* What an operation hands back: the value or the error kind of the
\* PlexSearchAPIError, the remote calls it made and the records it logged.
\* value is the returned list (the "results" of a browse), page the rest of
\* the dictionary a browse returns; a raised error carries neither.
NoPage == [total_count |-> 0, start |-> 0, limit |-> 0, has_more |-> FALSE]
Ok(value, remote, log) ==
    [ok |-> TRUE, value |-> value, page |-> NoPage, url |-> "", error |-> None,
     remote |-> remote, log |-> log]
OkPage(value, page, remote, log) ==
    [ok |-> TRUE, value |-> value, page |-> page, url |-> "", error |-> None,
     remote |-> remote, log |-> log]
OkUrl(url, remote, log) ==
    [ok |-> TRUE, value |-> << >>, page |-> NoPage, url |-> url, error |-> None,
     remote |-> remote, log |-> log]
Err(error, remote, log) ==
    [ok |-> FALSE, value |-> << >>, page |-> NoPage, url |-> "", error |-> error,
     remote |-> remote, log |-> log]

LogRec(level, msg) == [level |-> level, msg |-> msg]

\* The server address and access token the API object was built with.
PLEX_URL == "http://plex.local:32400"
PLEX_TOKEN == "s3cr3t"

\* Mutant: the thumbnail path is not tested before the URL is built.
_get_thumb_url_Unchecked(item) ==
    PLEX_URL \o (IF item.thumb = None THEN "" ELSE item.thumb) \o
        "?X-Plex-Token=" \o PLEX_TOKEN

\* _get_thumb_url: "" for an item without a thumbnail path, otherwise the
\* server address, the path and the token as the query string.
_get_thumb_url(item) ==
    IF item.thumb = None \/ item.thumb = "" THEN ""
    ELSE PLEX_URL \o item.thumb \o "?X-Plex-Token=" \o PLEX_TOKEN

\* _format_media_item raises when a required attribute access raises.
FormatRaises(item) == ~item.complete

_format_media_item(item, index) ==
    LET formatted == [index |-> index,
                      rating_key |-> ToString(item.ratingKey),
                      title |-> item.title,
                      thumb |-> _get_thumb_url(item),
                      year |-> item.year,
                      media_type |-> item.type,
                      parent_title |-> "",
                      grandparent_title |-> "",
                      added_at |-> None]
    IN  IF item.cls = "Movie" THEN [formatted EXCEPT !.media_type = MEDIA_TYPE_MOVIE]
        ELSE IF item.cls = "Show" THEN [formatted EXCEPT !.media_type = MEDIA_TYPE_SHOW]
        ELSE IF item.cls = "Episode"
             THEN [formatted EXCEPT !.media_type = MEDIA_TYPE_EPISODE,
                                    !.parent_title = item.seasonEpisode,
                                    !.grandparent_title = item.grandparentTitle,
                                    ![ATTR_INDEX] = item.index]
        ELSE formatted

\* formatted_item["added_at"] = item.addedAt.isoformat()
WithAddedAt(f) == [f EXCEPT !.added_at = "iso"]

\* Mutant: the first item that fails ends the loop (break for continue).
FormatLoop_Break(items, idx, base, withDate) ==
    LET Bad(i) == FormatRaises(items[i]) \/ (withDate /\ items[i].addedAt = "none")
        n == IF \E i \in 1..Len(items) : Bad(i)
             THEN (CHOOSE i \in 1..Len(items) : Bad(i) /\ \A j \in 1..(i - 1) : ~Bad(j)) - 1
             ELSE Len(items)
    IN  [out |-> [i \in 1..n |-> IF withDate
                                  THEN WithAddedAt(_format_media_item(items[i], base + idx + i - 1))
                                  ELSE _format_media_item(items[i], base + idx + i - 1)],
         log |-> IF n < Len(items)
                 THEN << LogRec("warning", "Error formatting media item") >> ELSE << >>]

\* The loop "for idx, item in enumerate(items): try: format(item, base + idx)
\* ... except Exception: warn; continue".  withDate is the recently-added
\* variant, whose item.addedAt.isoformat() raises on a missing date.
RECURSIVE FormatLoop(_, _, _, _)
FormatLoop(items, idx, base, withDate) ==
    IF items = << >> THEN [out |-> << >>, log |-> << >>]
    ELSE LET item == Head(items)
             rest == FormatLoop(Tail(items), idx + 1, base, withDate)
             raises == FormatRaises(item) \/ (withDate /\ item.addedAt = "none")
         IN  IF raises
             THEN [out |-> rest.out,
                   log |-> << LogRec("warning", "Error formatting media item") >> \o rest.log]
             ELSE [out |-> << IF withDate
                              THEN WithAddedAt(_format_media_item(item, base + idx))
                              ELSE _format_media_item(item, base + idx) >> \o rest.out,
                   log |-> rest.log]

_format_results_blocking(items) == FormatLoop(items, 0, 0, FALSE)

\* async_connect: outcome is what PlexServer(url, token) does.
ConnectOutcomes == {"ok", "Unauthorized", "BadRequest", "ConnectionError", "Exception"}

async_connect(outcome) ==
    IF outcome = "ok"
    THEN Ok(<< >>, << "connect" >>, << LogRec("info", "Successfully connected to Plex server") >>)
    ELSE IF outcome = "Unauthorized"
    THEN Err(ERROR_INVALID_AUTH, << "connect" >>, << LogRec("error", "Invalid Plex token") >>)
    ELSE IF outcome \in {"BadRequest", "ConnectionError"}
    THEN Err(ERROR_CANNOT_CONNECT, << "connect" >>, << LogRec("error", "Cannot connect to Plex server at " \o PLEX_URL) >>)
    ELSE Err(ERROR_CANNOT_CONNECT, << "connect" >>, << LogRec("error", "Unexpected error connecting to Plex") >>)

\* library_sections = None, as distinct from every list of section names.
NoneList == << None >>
Truthy(library_sections) == library_sections # NoneList /\ library_sections # << >>

\* Mutant: an unknown name ends the accumulation (break for continue).
Accumulate_Break(plex, names, kind, query, limit) ==
    LET Known(i) == SectionExists(names[i])
        n == IF \E i \in 1..Len(names) : ~Known(i)
             THEN (CHOOSE i \in 1..Len(names) : ~Known(i) /\ \A j \in 1..(i - 1) : Known(j)) - 1
             ELSE Len(names)
    IN  [results |-> Flatten([i \in 1..n |->
                        IF kind = "search" THEN SectionSearch(plex, names[i], query, limit)
                        ELSE IF kind = "onDeck" THEN SectionOnDeck(plex, names[i])
                        ELSE SectionRecentlyAdded(plex, names[i], limit)]),
         remote |-> Flatten([i \in 1..n |-> << "section", kind >>]),
         log |-> IF n < Len(names)
                 THEN << LogRec("warning", "Library section not found") >> ELSE << >>]

\* "for section_name in library_sections: try: section(...); results.extend(...)
\* except NotFound: warn; continue" of search, on deck and recently added.
RECURSIVE Accumulate(_, _, _, _, _)
Accumulate(plex, names, kind, query, limit) ==
    IF names = << >> THEN [results |-> << >>, remote |-> << >>, log |-> << >>]
    ELSE LET section_name == Head(names)
             rest == Accumulate(plex, Tail(names), kind, query, limit)
         IN  IF SectionExists(section_name)
             THEN [results |->
                       (IF kind = "search" THEN SectionSearch(plex, section_name, query, limit)
                        ELSE IF kind = "onDeck" THEN SectionOnDeck(plex, section_name)
                        ELSE SectionRecentlyAdded(plex, section_name, limit)) \o rest.results,
                   remote |-> << "section", kind >> \o rest.remote,
                   log |-> rest.log]
             ELSE [results |-> rest.results,
                   remote |-> << "section" >> \o rest.remote,
                   log |-> << LogRec("warning", "Library section not found") >> \o rest.log]

_search_blocking(plex, query, library_sections, limit) ==
    IF Truthy(library_sections)
    THEN Accumulate(plex, library_sections, "search", query, limit)
    ELSE [results |-> LibrarySearch(plex, query, limit),
          remote |-> << "library.search" >>, log |-> << >>]

\* Mutant: the merged list is never truncated.
Truncate_NoCut(results, limit) == results

\* results[:limit]
Truncate(results, limit) == PySlice(results, 0, limit)

\* Mutant: the slice end is the page size, all_items[start:limit].
Paginate_EndIsLimit(all_items, start, limit) == PySlice(all_items, start, limit)

\* all_items[start:start + limit]
Paginate(all_items, start, limit) == PySlice(all_items, start, start + limit)

\* Mutant: off by one, (start + limit) <= total_count.
has_more_OffByOne(start, limit, total_count) == (start + limit) <= total_count

\* "has_more": (start + limit) < total_count
has_more(start, limit, total_count) == (start + limit) < total_count

\* The operations below are the bodies after "if not self._server: connect".
\* fault = TRUE: the first remote request raises an unexpected exception.
async_search(plex, query, library_sections, limit, fault) ==
    IF fault
    THEN Err(ERROR_NO_RESULTS, << "failed" >>, << LogRec("error", "Error searching Plex") >>)
    ELSE LET found == _search_blocking(plex, query, library_sections, limit)
         IN  IF found.results = << >>
             THEN Ok(<< >>, found.remote, found.log \o << LogRec("info", "No results found") >>)
             ELSE LET f == _format_results_blocking(Truncate(found.results, limit))
                  IN  Ok(f.out, found.remote, found.log \o f.log \o << LogRec("info", "Found results") >>)

async_browse_library(plex, library_name, start, limit, sort, fault) ==
    IF fault
    THEN Err(ERROR_NO_RESULTS, << "failed" >>, << LogRec("error", "Error browsing library") >>)
    ELSE IF ~SectionExists(library_name)
    THEN Err(ERROR_NO_RESULTS, << "section" >>, << LogRec("error", "Library section not found") >>)
    ELSE LET all_items == SectionAll(plex, library_name, sort)
             total_count == Len(all_items)
             paginated_items == Paginate(all_items, start, limit)
             f == FormatLoop(paginated_items, 0, start, FALSE)
         IN  OkPage(f.out,
                    [total_count |-> total_count,
                     start |-> start,
                     limit |-> limit,
                     has_more |-> has_more(start, limit, total_count)],
                    << "section", "all" >>,
                    f.log \o << LogRec("info", "Browsing library") >>)

async_get_on_deck(plex, library_sections, limit, fault) ==
    IF fault
    THEN Err(ERROR_NO_RESULTS, << "failed" >>, << LogRec("error", "Error getting on deck items") >>)
    ELSE LET found == IF Truthy(library_sections)
                      THEN Accumulate(plex, library_sections, "onDeck", None, limit)
                      ELSE [results |-> LibraryOnDeck(plex),
                            remote |-> << "library.onDeck" >>, log |-> << >>]
             f == FormatLoop(Truncate(found.results, limit), 0, 0, FALSE)
         IN  Ok(f.out, found.remote, found.log \o f.log \o << LogRec("info", "Found on deck items") >>)

async_get_recently_added(plex, library_sections, limit, fault) ==
    IF fault
    THEN Err(ERROR_NO_RESULTS, << "failed" >>, << LogRec("error", "Error getting recently added items") >>)
    ELSE LET found == IF Truthy(library_sections)
                      THEN Accumulate(plex, library_sections, "recentlyAdded", None, limit)
                      ELSE [results |-> LibraryRecentlyAdded(plex, limit),
                            remote |-> << "library.recentlyAdded" >>, log |-> << >>]
             f == FormatLoop(Truncate(found.results, limit), 0, 0, TRUE)
         IN  Ok(f.out, found.remote, found.log \o f.log \o << LogRec("info", "Found recently added items") >>)

async_get_by_genre(plex, library_name, genre, limit, fault) ==
    IF fault
    THEN Err(ERROR_NO_RESULTS, << "failed" >>, << LogRec("error", "Error getting items by genre") >>)
    ELSE IF ~SectionExists(library_name)
    THEN Err(ERROR_NO_RESULTS, << "section" >>, << LogRec("error", "Library section not found") >>)
    ELSE LET f == FormatLoop(SectionGenre(plex, library_name, genre, limit), 0, 0, FALSE)
         IN  Ok(f.out, << "section", "search" >>, f.log \o << LogRec("info", "Found items in genre") >>)

RECURSIVE FormatCollections(_, _)
FormatCollections(collections, idx) ==
    IF collections = << >> THEN [out |-> << >>, log |-> << >>]
    ELSE LET collection == Head(collections)
             rest == FormatCollections(Tail(collections), idx + 1)
         IN  IF ~collection.complete
             THEN [out |-> rest.out,
                   log |-> << LogRec("warning", "Error formatting collection") >> \o rest.log]
             ELSE [out |-> << [index |-> idx,
                               rating_key |-> ToString(collection.ratingKey),
                               title |-> collection.title,
                               thumb |-> _get_thumb_url(collection),
                               year |-> 0,
                               media_type |-> "collection",
                               parent_title |-> "",
                               grandparent_title |-> "",
                               added_at |-> None] >> \o rest.out,
                   log |-> rest.log]

\* Mutant: an unknown section yields an empty list, not NotFound.
async_get_collections_Lenient(plex, library_name, fault) ==
    IF fault
    THEN Err(ERROR_NO_RESULTS, << "failed" >>, << LogRec("error", "Error getting collections") >>)
    ELSE IF ~SectionExists(library_name)
    THEN Ok(<< >>, << "section" >>, << LogRec("info", "Found collections") >>)
    ELSE LET f == FormatCollections(SectionCollections(library_name), 0)
         IN  Ok(f.out, << "section", "collections" >>, f.log \o << LogRec("info", "Found collections") >>)

async_get_collections(plex, library_name, fault) ==
    IF fault
    THEN Err(ERROR_NO_RESULTS, << "failed" >>, << LogRec("error", "Error getting collections") >>)
    ELSE IF ~SectionExists(library_name)
    THEN Err(ERROR_NO_RESULTS, << "section" >>, << LogRec("error", "Library section not found") >>)
    ELSE LET f == FormatCollections(SectionCollections(library_name), 0)
         IN  Ok(f.out, << "section", "collections" >>, f.log \o << LogRec("info", "Found collections") >>)

\* int(rating_key): the strings Python parses as an integer, among the
\* identifiers callers pass.
KeyNumbers == {101, 102, 103, 104, 105, 999}
IsInt(rating_key) == \E n \in KeyNumbers : ToString(n) = rating_key
int(rating_key) == CHOOSE n \in KeyNumbers : ToString(n) = rating_key

\* server.fetchItem(key): the item with that rating key, NotFound otherwise.
AllItems(plex) == Flatten([i \in 1..Len(ServerSections) |-> plex[ServerSections[i]]])
HasItem(plex, key) == \E i \in 1..Len(AllItems(plex)) : AllItems(plex)[i].ratingKey = key
fetchItem(plex, key) ==
    AllItems(plex)[CHOOSE i \in 1..Len(AllItems(plex)) : AllItems(plex)[i].ratingKey = key]

\* Mutant: an identifier the server does not know resolves to the item's
\* metadata path instead of failing.
async_get_media_url_Lenient(plex, rating_key, fault) ==
    IF ~IsInt(rating_key) \/ fault
    THEN Err(ERROR_NO_RESULTS, << >>, << LogRec("error", "Error getting media URL") >>)
    ELSE OkUrl(PLEX_URL \o "/library/metadata/" \o rating_key \o
                   "?X-Plex-Token=" \o PLEX_TOKEN,
               << "fetchItem" >>, << >>)

\* Mutant: int(rating_key) is evaluated outside the try block.
async_get_media_url_Unwrapped(plex, rating_key, fault) ==
    IF ~IsInt(rating_key)
    THEN Err("ValueError", << >>, << >>)
    ELSE IF fault \/ ~HasItem(plex, int(rating_key))
    THEN Err(ERROR_NO_RESULTS, << "fetchItem" >>, << LogRec("error", "Media item not found") >>)
    ELSE LET item == fetchItem(plex, int(rating_key))
         IN  IF item.part # ""
             THEN OkUrl(PLEX_URL \o item.part \o "?X-Plex-Token=" \o PLEX_TOKEN,
                        << "fetchItem" >>, << >>)
             ELSE Err(ERROR_NO_RESULTS, << "fetchItem" >>,
                      << LogRec("error", "Error getting media URL") >>)

async_get_media_url(plex, rating_key, fault) ==
    IF ~IsInt(rating_key)
    THEN Err(ERROR_NO_RESULTS, << >>, << LogRec("error", "Error getting media URL") >>)
    ELSE IF fault
    THEN Err(ERROR_NO_RESULTS, << "failed" >>, << LogRec("error", "Error getting media URL") >>)
    ELSE IF ~HasItem(plex, int(rating_key))
    THEN Err(ERROR_NO_RESULTS, << "fetchItem" >>, << LogRec("error", "Media item not found") >>)
    ELSE LET item == fetchItem(plex, int(rating_key))
         IN  IF item.part # ""
             THEN OkUrl(PLEX_URL \o item.part \o "?X-Plex-Token=" \o PLEX_TOKEN,
                        << "fetchItem" >>, << >>)
             ELSE Err(ERROR_NO_RESULTS, << "fetchItem" >>,
                      << LogRec("error", "Error getting media URL") >>)

\* Mutant: a failed connect in front of an operation surfaces as no_results.
EnsureConnected_Wrapped(session, outcome, result) ==
    IF session # None THEN [session |-> session, ret |-> result]
    ELSE LET c == async_connect(outcome)
         IN  IF c.ok
             THEN [session |-> "PlexServer",
                   ret |-> [result EXCEPT !.remote = c.remote \o @, !.log = c.log \o @]]
             ELSE [session |-> session, ret |-> [c EXCEPT !.error = ERROR_NO_RESULTS]]

\* The thread a remote request of an operation runs on.  async_connect and
\* async_search hand their blocking calls to loop.run_in_executor; the other
\* operations, and the get_libraries() of the config and options flows, make
\* theirs directly in the coroutine.
RunsOn(op, request) ==
    IF request = "connect" \/ op = "search" THEN "executor" ELSE "event_loop"

\* "if not self._server: await self.async_connect()" in front of an operation:
\* a failed connect raises out of the operation before its try block.
EnsureConnected(session, outcome, result) ==
    IF session # None THEN [session |-> session, ret |-> result]
    ELSE LET c == async_connect(outcome)
         IN  IF c.ok
             THEN [session |-> "PlexServer",
                   ret |-> [result EXCEPT !.remote = c.remote \o @, !.log = c.log \o @]]
             ELSE [session |-> session, ret |-> c]

\* ------------------------------------------------------------------ state
VARIABLES
    plex,       \* the content of the remote server
    _server,    \* PlexSearchAPI._server: None or the session
    call,       \* the operation in progress on the API object, with its arguments
    ret,        \* what that operation returned or raised
    entry,      \* the config entry: its state, its data and its options
    hass_data,  \* hass.data[DOMAIN][entry.entry_id]
    handlers,   \* the registered service handlers and the values they closed over
    svc,        \* the service call (or setup) in progress, with its inputs
    hret,       \* how that service call ended
    effects,    \* what it did, in order: events, remote requests, player calls
    flow,       \* the config flow in progress
    logged,     \* the log records __init__.py wrote during that call
    slots,      \* hass.data[DOMAIN], by entry id, where two entries are followed
    sensors,    \* the sensor entities of each of the two entries
    owner,      \* the entry whose setup registered the services last
    pending,    \* the listing calls that await their API result
    bus         \* the search_completed event last fired by each entry's handlers

apiVars == << plex, _server, call, ret >>
hassVars == << entry, hass_data, handlers, svc, hret, effects, flow, logged >>
platformVars == << slots, sensors, owner, pending, bus >>
vars == << plex, _server, call, ret, entry, hass_data, handlers, svc, hret, effects, flow,
           logged, slots, sensors, owner, pending, bus >>

\* Every call record has the same fields; those an operation does not take
\* keep the values they have here.
NoCall ==
    [op |-> "none", connected |-> FALSE, outcome |-> "ok", fault |-> FALSE,
     query |-> None, library_sections |-> NoneList, library_name |-> None,
     genre |-> None, start |-> 0, limit |-> 0, sort |-> None, rating_key |-> None]
NoRet == Err("pending", << >>, << >>)

Limits == 0..MaxLimit
Starts == 0..MaxStart
Sorts == {None, "ratingKey:desc"}
SectionLists == {NoneList} \cup SeqsUpTo(SectionNames, MaxNames)
Outcomes == IF _server = None THEN ConnectOutcomes ELSE {"ok"}
RatingKeyInputs == {"101", "103", "999", "abc"}

\* The media players a service call can name.
PlayerIds ==
    {"media_player.living_room", "media_player.bedroom", "media_player.plex_tv",
     "media_player.plex_search_play_tv"}

\* The player and library selections an entry is created with or its options
\* are changed to.  Players are compared by membership only, so a selection
\* is a set; libraries are searched in their order, so a selection is a list.
PlayerLists == {{}, {"media_player.living_room"}}
LibraryLists == {<< >>, << "Music", "TV" >>}
Selection(selected_players, libraries) ==
    [selected_players |-> selected_players, libraries |-> libraries]
Selections == {Selection(p, l) : p \in PlayerLists, l \in LibraryLists}

\* entry.options is empty until the options flow has saved once; from then
\* on it holds both keys.
NoOptions == [set |-> FALSE, selected_players |-> {}, libraries |-> << >>]
Options(sel) ==
    [set |-> TRUE, selected_players |-> sel.selected_players, libraries |-> sel.libraries]

\* entry.options.get(key, entry.data.get(key, []))
ConfiguredPlayers(e) ==
    IF e.options.set THEN e.options.selected_players ELSE e.data.selected_players
ConfiguredLibraries(e) ==
    IF e.options.set THEN e.options.libraries ELSE e.data.libraries

NoSlot ==
    [present |-> FALSE, selected_players |-> {}, libraries |-> << >>,
     search_results |-> << >>]
NoHandlers == [registered |-> FALSE, selected_players |-> {}, libraries |-> << >>]

\* Every service call record has the same fields, as every call record does.
NoSvc ==
    [op |-> "none", query |-> None, limit |-> 0, rating_key |-> None,
     player_entity_id |-> None, player_ok |-> TRUE, target |-> None, index |-> 0]
NoHret == [done |-> FALSE, ok |-> FALSE, exc |-> None, msg |-> None]
Returned == [done |-> TRUE, ok |-> TRUE, exc |-> None, msg |-> None]
Raised(exc, msg) == [done |-> TRUE, ok |-> FALSE, exc |-> exc, msg |-> msg]

\* The sensor entities of an entry: the status sensor and the result
\* sensors, by index.  has_data is the truth value of _result_data, which
\* is None or a record.
ResultSensors == 6
NoRecord ==
    [index |-> 0, rating_key |-> None, title |-> None, thumb |-> "", year |-> 0,
     media_type |-> None, parent_title |-> "", grandparent_title |-> "",
     added_at |-> None]
NoSensors ==
    [added |-> FALSE,
     status |-> [native_value |-> "Ready", result_count |-> 0, last_query |-> ""],
     result |-> [i \in 0..(ResultSensors - 1) |->
                    [native_value |-> "Empty", has_data |-> FALSE,
                     result_data |-> NoRecord]]]

\* One thing a handler did.  kind is "event" (name is the event type, the
\* other fields its payload), "remote" (name is the request), "store" (results
\* is what was written to the entry's search_results) or "player" (the
\* media_player.play_media call: player, content_type, media_url).
NoEffect ==
    [kind |-> None, name |-> None, type |-> None, query |-> None, limit |-> 0,
     result_count |-> 0, results |-> << >>, rating_key |-> None, player |-> None,
     error |-> None, media_url |-> None, content_type |-> None,
     library |-> None, genre |-> None, total_count |-> 0, has_more |-> FALSE]
Remote(remote) ==
    [i \in 1..Len(remote) |-> [NoEffect EXCEPT !.kind = "remote", !.name = remote[i]]]
Store(results) == [NoEffect EXCEPT !.kind = "store", !.results = results]

\* str.lower() and str.replace(" ", "_"), over the letters server names use.
LowerChar(ch) ==
    CASE ch = "D" -> "d" [] ch = "M" -> "m" [] ch = "P" -> "p" [] OTHER -> ch
RECURSIVE MapChars(_, _)
MapChars(s, i) ==
    IF i > Len(s) THEN ""
    ELSE (IF SubSeq(s, i, i) = " " THEN "_" ELSE LowerChar(SubSeq(s, i, i)))
         \o MapChars(s, i + 1)

\* info["server_name"].lower().replace(" ", "_")
UniqueId(server_name) == MapChars(server_name, 1)

\* The friendly names a server can report.
ServerNames == {"My Plex", "Den"}

\* A config flow: the step it shows, the error on its form, the libraries
\* it listed, the unique id it claimed, the remote requests of its last
\* step with what the connect among them met, and the unique ids of the
\* entries of other servers.
NoFlow ==
    [step |-> "none", errors |-> None, libraries |-> << >>, unique_id |-> None,
     remote |-> << >>, outcome |-> "ok", configured |-> {}]

\* listener: update_listener is attached; platforms: the sensor platform has
\* been forwarded; others: how many other entries of the domain are
\* configured (they were set up before this one).
NoEntry ==
    [state |-> "absent", unique_id |-> None, data |-> Selection({}, << >>),
     options |-> NoOptions, listener |-> FALSE, platforms |-> FALSE, others |-> 0]

\* A PlexSearchAPI object on its own: no config entry is involved.
\* The two entries of the sensor platform's specifications.
EntryIds == {"A", "B"}

\* No entry is followed beyond the single one.
NoPlatform ==
    /\ slots = [e \in EntryIds |-> NoSlot]
    /\ sensors = [e \in EntryIds |-> NoSensors]
    /\ owner = None
    /\ pending = {}
    /\ bus = [e \in EntryIds |-> NoEffect]

Standalone ==
    /\ entry = NoEntry
    /\ flow = NoFlow
    /\ hass_data = NoSlot
    /\ handlers = NoHandlers
    /\ svc = NoSvc
    /\ hret = NoHret
    /\ effects = << >>
    /\ logged = << >>
    /\ NoPlatform

\* A PlexSearchAPI object right after __init__, facing some server.
InitApi ==
    /\ plex \in Servers
    /\ _server = None
    /\ call = NoCall
    /\ ret = NoRet
    /\ Standalone

\* call also records what the environment did: whether a session existed, the
\* outcome of the connect the operation had to make (if any) and whether its
\* first remote request failed.
Finish(c, outcome, fault, result) ==
    LET r == EnsureConnected(_server, outcome, result)
    IN  /\ call' = [c EXCEPT !.connected = _server # None, !.outcome = outcome,
                              !.fault = fault]
        /\ _server' = r.session
        /\ ret' = r.ret
        /\ UNCHANGED << plex, hassVars, platformVars >>

ApiConnect ==
    /\ call = NoCall
    /\ \E outcome \in ConnectOutcomes :
         LET c == async_connect(outcome)
         IN  /\ call' = [NoCall EXCEPT !.op = "connect", !.connected = _server # None,
                                         !.outcome = outcome]
             /\ _server' = IF c.ok THEN "PlexServer" ELSE _server
             /\ ret' = c
             /\ UNCHANGED << plex, hassVars, platformVars >>

ApiSearch ==
    /\ call = NoCall
    /\ \E query \in Queries, library_sections \in SectionLists, limit \in Limits,
          outcome \in Outcomes, fault \in BOOLEAN :
         Finish([NoCall EXCEPT !.op = "search", !.query = query,
                 !.library_sections = library_sections, !.limit = limit],
                outcome, fault,
                async_search(plex, query, library_sections, limit, fault))

ApiBrowse ==
    /\ call = NoCall
    /\ \E library_name \in SectionNames, start \in Starts, limit \in Limits,
          sort \in Sorts, outcome \in Outcomes, fault \in BOOLEAN :
         Finish([NoCall EXCEPT !.op = "browse", !.library_name = library_name,
                                !.start = start, !.limit = limit, !.sort = sort],
                outcome, fault,
                async_browse_library(plex, library_name, start, limit, sort, fault))

ApiOnDeck ==
    /\ call = NoCall
    /\ \E library_sections \in SectionLists, limit \in Limits,
          outcome \in Outcomes, fault \in BOOLEAN :
         Finish([NoCall EXCEPT !.op = "on_deck", !.library_sections = library_sections,
                                !.limit = limit],
                outcome, fault,
                async_get_on_deck(plex, library_sections, limit, fault))

ApiRecentlyAdded ==
    /\ call = NoCall
    /\ \E library_sections \in SectionLists, limit \in Limits,
          outcome \in Outcomes, fault \in BOOLEAN :
         Finish([NoCall EXCEPT !.op = "recently_added", !.library_sections = library_sections,
                 !.limit = limit],
                outcome, fault,
                async_get_recently_added(plex, library_sections, limit, fault))

ApiByGenre ==
    /\ call = NoCall
    /\ \E library_name \in SectionNames, genre \in Genres, limit \in Limits,
          outcome \in Outcomes, fault \in BOOLEAN :
         Finish([NoCall EXCEPT !.op = "by_genre", !.library_name = library_name,
                                !.genre = genre, !.limit = limit],
                outcome, fault,
                async_get_by_genre(plex, library_name, genre, limit, fault))

ApiCollections ==
    /\ call = NoCall
    /\ \E library_name \in SectionNames, outcome \in Outcomes, fault \in BOOLEAN :
         Finish([NoCall EXCEPT !.op = "collections", !.library_name = library_name],
                outcome, fault,
                async_get_collections(plex, library_name, fault))

ApiMediaUrl ==
    /\ call = NoCall
    /\ \E rating_key \in RatingKeyInputs, outcome \in Outcomes, fault \in BOOLEAN :
         Finish([NoCall EXCEPT !.op = "media_url", !.rating_key = rating_key],
                outcome, fault,
                async_get_media_url(plex, rating_key, fault))

\* The caller has taken the result; the API object is idle again.
ApiReturn ==
    /\ call # NoCall
    /\ call' = NoCall
    /\ ret' = NoRet
    /\ UNCHANGED << plex, _server, hassVars, platformVars >>

NextApi ==
    \/ ApiConnect
    \/ ApiSearch
    \/ ApiBrowse
    \/ ApiOnDeck
    \/ ApiRecentlyAdded
    \/ ApiByGenre
    \/ ApiCollections
    \/ ApiMediaUrl
    \/ ApiReturn

SpecApi == InitApi /\ [][NextApi]_vars

\* ------------------------------------------------------------ integration

\* What a service handler needs from its surroundings: the entry's API
\* object (its session, the server behind it), what the environment does to
\* the requests it makes, and whether the entry's hass.data slot exists.
HandlerEnv(session, outcome, fault, present) ==
    [plex |-> plex, session |-> session, outcome |-> outcome, fault |-> fault,
     present |-> present]

\* What a handler did: how it ended, its effects in order, the API operation
\* it invoked (NoCall if none) with its result, the API session afterwards,
\* the list it stored in search_results (if it stored one), and the records
\* the handler itself logged (the API's own records are in ret).
Out(h, eff, c, r, session, stored, results) ==
    [hret |-> h, effects |-> eff, call |-> c, ret |-> r, session |-> session,
     stored |-> stored, results |-> results, log |-> << >>]

\* Mutant: the handler logs what it found, not how many.
HandlerLog_WithResults(out, start, completed, found, failed) ==
    [out EXCEPT !.log =
        << LogRec("info", start) >> \o
        (IF out.hret.ok
         THEN << LogRec("info", completed \o
                     (IF out.results = << >> THEN "" ELSE out.results[1].thumb) \o found) >>
         ELSE IF out.hret.exc = "HomeAssistantError"
         THEN << LogRec("error", failed \o out.ret.error) >>
         ELSE << >>)]

\* The log records of a listing handler: one when it starts, and then
\* "... completed" as the last statement of the try block or "... failed" in
\* "except PlexSearchAPIError"; any other exception leaves the handler
\* without a further record.
HandlerLog(out, start, completed, found, failed) ==
    [out EXCEPT !.log =
        << LogRec("info", start) >> \o
        (IF out.hret.ok
         THEN << LogRec("info", completed \o ToString(Len(out.results)) \o found) >>
         ELSE IF out.hret.exc = "HomeAssistantError"
         THEN << LogRec("error", failed \o out.ret.error) >>
         ELSE << >>)]

\* Mutant: a failed operation throws the session away.
Invoke_DropsSession(env, c, result) ==
    LET a == EnsureConnected(env.session, env.outcome, result)
    IN  [call |-> [c EXCEPT !.connected = env.session # None,
                            !.outcome = env.outcome, !.fault = env.fault],
         ret |-> a.ret, session |-> IF a.ret.ok THEN a.session ELSE None]

\* The API call a handler makes, as ApiSearch and the others record it.
Invoke(env, c, result) ==
    LET a == EnsureConnected(env.session, env.outcome, result)
    IN  [call |-> [c EXCEPT !.connected = env.session # None,
                            !.outcome = env.outcome, !.fault = env.fault],
         ret |-> a.ret, session |-> a.session]

\* "libraries if libraries else None"
LibrariesArg(libraries) == IF libraries = << >> THEN NoneList ELSE libraries

\* "results = await api...; hass.data[DOMAIN][entry.entry_id]["search_results"]
\* = results; hass.bus.async_fire(EVENT_SEARCH_COMPLETED, ...)": the tail the
\* listing handlers share.  The store raises KeyError when the slot is gone.
StoreAndFire(env, a, before, completed) ==
    IF ~env.present
    THEN Out(Raised("KeyError", "entry_id"), before \o Remote(a.ret.remote),
             a.call, a.ret, a.session, FALSE, << >>)
    ELSE Out(Returned,
             before \o Remote(a.ret.remote) \o
                 << Store(a.ret.value),
                    [completed EXCEPT !.kind = "event", !.name = EVENT_SEARCH_COMPLETED,
                                      !.result_count = Len(a.ret.value),
                                      !.results = a.ret.value] >>,
             a.call, a.ret, a.session, TRUE, a.ret.value)

handle_search(libraries, env, query, limit) ==
    HandlerLog(
        LET started == [NoEffect EXCEPT !.kind = "event", !.name = EVENT_SEARCH_STARTED,
                                        !.query = query, !.limit = limit]
            a == Invoke(env,
                        [NoCall EXCEPT !.op = "search", !.query = query,
                                       !.library_sections = LibrariesArg(libraries),
                                       !.limit = limit],
                        async_search(env.plex, query, LibrariesArg(libraries), limit,
                                     env.fault))
        IN  IF a.ret.ok
            THEN StoreAndFire(env, a, << started >>, [NoEffect EXCEPT !.query = query])
            ELSE Out(Raised("HomeAssistantError", "Search failed: " \o a.ret.error),
                     << started >> \o Remote(a.ret.remote) \o
                         << [NoEffect EXCEPT !.kind = "event", !.name = EVENT_SEARCH_FAILED,
                                             !.query = query, !.error = a.ret.error] >>,
                     a.call, a.ret, a.session, FALSE, << >>),
        "Searching Plex for: " \o query \o " (limit: " \o ToString(limit) \o ")",
        "Search completed: ", " results found", "Search failed: ")

handle_get_on_deck(libraries, env, limit) ==
    HandlerLog(
        LET a == Invoke(env,
                        [NoCall EXCEPT !.op = "on_deck",
                                       !.library_sections = LibrariesArg(libraries),
                                       !.limit = limit],
                        async_get_on_deck(env.plex, LibrariesArg(libraries), limit,
                                          env.fault))
        IN  IF a.ret.ok
            THEN StoreAndFire(env, a, << >>, [NoEffect EXCEPT !.type = "on_deck"])
            ELSE Out(Raised("HomeAssistantError", "Get on deck failed: " \o a.ret.error),
                     Remote(a.ret.remote), a.call, a.ret, a.session, FALSE, << >>),
        "Getting on deck items (limit=" \o ToString(limit) \o ")",
        "On deck completed: ", " results found", "Get on deck failed: ")

handle_get_recently_added(libraries, env, limit) ==
    HandlerLog(
        LET a == Invoke(env,
                        [NoCall EXCEPT !.op = "recently_added",
                                       !.library_sections = LibrariesArg(libraries),
                                       !.limit = limit],
                        async_get_recently_added(env.plex, LibrariesArg(libraries), limit,
                                                 env.fault))
        IN  IF a.ret.ok
            THEN StoreAndFire(env, a, << >>, [NoEffect EXCEPT !.type = "recently_added"])
            ELSE Out(Raised("HomeAssistantError",
                            "Get recently added failed: " \o a.ret.error),
                     Remote(a.ret.remote), a.call, a.ret, a.session, FALSE, << >>),
        "Getting recently added items (limit=" \o ToString(limit) \o ")",
        "Recently added completed: ", " results found", "Get recently added failed: ")

handle_browse_library(env, library_name, start, limit, sort) ==
    HandlerLog(
        LET a == Invoke(env,
                        [NoCall EXCEPT !.op = "browse", !.library_name = library_name,
                                       !.start = start, !.limit = limit, !.sort = sort],
                        async_browse_library(env.plex, library_name, start, limit, sort,
                                             env.fault))
        IN  IF a.ret.ok
            THEN StoreAndFire(env, a, << >>,
                              [NoEffect EXCEPT !.library = library_name,
                                               !.total_count = a.ret.page.total_count,
                                               !.has_more = a.ret.page.has_more])
            ELSE Out(Raised("HomeAssistantError", "Browse failed: " \o a.ret.error),
                     Remote(a.ret.remote), a.call, a.ret, a.session, FALSE, << >>),
        "Browsing library: " \o library_name \o " (start=" \o ToString(start) \o
                   ", limit=" \o ToString(limit) \o ")",
        "Browse completed: ", " results found", "Browse failed: ")

handle_get_by_genre(env, library_name, genre, limit) ==
    HandlerLog(
        LET a == Invoke(env,
                        [NoCall EXCEPT !.op = "by_genre", !.library_name = library_name,
                                       !.genre = genre, !.limit = limit],
                        async_get_by_genre(env.plex, library_name, genre, limit, env.fault))
        IN  IF a.ret.ok
            THEN StoreAndFire(env, a, << >>,
                              [NoEffect EXCEPT !.type = "genre", !.genre = genre,
                                               !.library = library_name])
            ELSE Out(Raised("HomeAssistantError", "Get by genre failed: " \o a.ret.error),
                     Remote(a.ret.remote), a.call, a.ret, a.session, FALSE, << >>),
        "Getting items by genre: " \o genre \o " from " \o library_name \o
                   " (limit=" \o ToString(limit) \o ")",
        "Genre browse completed: ", " results found", "Get by genre failed: ")

handle_get_collections(env, library_name) ==
    HandlerLog(
        LET a == Invoke(env,
                        [NoCall EXCEPT !.op = "collections", !.library_name = library_name],
                        async_get_collections(env.plex, library_name, env.fault))
        IN  IF a.ret.ok
            THEN StoreAndFire(env, a, << >>,
                              [NoEffect EXCEPT !.type = "collections",
                                               !.library = library_name])
            ELSE Out(Raised("HomeAssistantError", "Get collections failed: " \o a.ret.error),
                     Remote(a.ret.remote), a.call, a.ret, a.session, FALSE, << >>),
        "Getting collections from: " \o library_name,
        "Collections retrieved: ", " found", "Get collections failed: ")

\* hass.data[DOMAIN][entry.entry_id]["search_results"] = []
handle_clear_results(env) ==
    IF ~env.present
    THEN Out(Raised("KeyError", "entry_id"), << >>, NoCall, NoRet, env.session,
             FALSE, << >>)
    ELSE [Out(Returned, << Store(<< >>) >>, NoCall, NoRet, env.session, TRUE, << >>)
             EXCEPT !.log = << LogRec("info", "Search results cleared") >>]

\* "t in s" on strings.
Contains(s, t) == \E i \in 1..(Len(s) - Len(t) + 1) : SubSeq(s, i, i + Len(t) - 1) = t

\* Entity ids are lower case already (the schema's cv.entity_id sees to it).
is_plex_player(player_entity_id) ==
    Contains(player_entity_id, "plex") /\ ~Contains(player_entity_id, "plex_search_play")

\* Mutant: the allow-list is not consulted.
PlayerAllowed_Unchecked(selected_players, player_entity_id) == TRUE

\* "if selected_players and player_entity_id not in selected_players", negated.
PlayerAllowed(selected_players, player_entity_id) ==
    ~(selected_players # {} /\ player_entity_id \notin selected_players)

\* "media_url, media_type = <value>" unpacks a string character by character:
\* it succeeds only on a string of exactly two characters.
Unpacks(value) == Len(value) = 2

\* hass.services.async_call(media_player, play_media, ..., blocking=True) and
\* what follows it.  An exception of the player service is not a
\* PlexSearchAPIError, so it leaves the handler as it is.
CallPlayer(env, a, rating_key, player_entity_id, content_type, media_url, player_ok) ==
    LET played == [NoEffect EXCEPT !.kind = "player", !.name = "media_player.play_media",
                                   !.player = player_entity_id,
                                   !.content_type = content_type,
                                   !.media_url = media_url]
        started == [NoEffect EXCEPT !.kind = "event", !.name = EVENT_PLAYBACK_STARTED,
                                    !.rating_key = rating_key,
                                    !.player = player_entity_id,
                                    !.media_url = media_url]
    IN  IF player_ok
        THEN Out(Returned, Remote(a.ret.remote) \o << played, started >>,
                 a.call, a.ret, a.session, FALSE, << >>)
        ELSE Out(Raised("HomeAssistantError", "media_player.play_media failed"),
                 Remote(a.ret.remote) \o << played >>,
                 a.call, a.ret, a.session, FALSE, << >>)

\* str.replace(old, new) for a non-empty old.
RECURSIVE Replace(_, _, _)
Replace(s, old, new) ==
    IF Len(s) < Len(old) THEN s
    ELSE IF SubSeq(s, 1, Len(old)) = old
    THEN new \o Replace(SubSeq(s, Len(old) + 1, Len(s)), old, new)
    ELSE SubSeq(s, 1, 1) \o Replace(SubSeq(s, 2, Len(s)), old, new)

\* The log records of handle_play_media: one when it starts, records the
\* records of the branch taken, and "Playback started successfully" after the
\* playback_started event.
PlayLog(out, rating_key, player_entity_id, records) ==
    [out EXCEPT !.log =
        << LogRec("info", "Playing media (rating_key: " \o rating_key \o ") on " \o
                              player_entity_id) >> \o records \o
        (IF out.hret.ok THEN << LogRec("info", "Playback started successfully") >>
         ELSE << >>)]

handle_play_media(selected_players, env, rating_key, player_entity_id, player_ok) ==
    LET failed == [NoEffect EXCEPT !.kind = "event", !.name = EVENT_PLAYBACK_FAILED,
                                   !.rating_key = rating_key,
                                   !.player = player_entity_id]
        none == [call |-> NoCall, ret |-> NoRet, session |-> env.session]
        a == Invoke(env, [NoCall EXCEPT !.op = "media_url", !.rating_key = rating_key],
                    async_get_media_url(env.plex, rating_key, env.fault))
    IN  IF ~PlayerAllowed(selected_players, player_entity_id)
        THEN LET error_msg == "Player " \o player_entity_id \o
                                  " is not in the selected players list"
             IN  PlayLog(Out(Raised("HomeAssistantError", error_msg),
                             << [failed EXCEPT !.error = error_msg] >>,
                             NoCall, NoRet, env.session, FALSE, << >>),
                         rating_key, player_entity_id, << LogRec("error", error_msg) >>)
        ELSE IF is_plex_player(player_entity_id)
        THEN PlayLog(CallPlayer(env, none, rating_key, player_entity_id, "video",
                                "/library/metadata/" \o rating_key, player_ok),
                     rating_key, player_entity_id,
                     << LogRec("debug", "Using Plex media player with library path: " \o
                                            "/library/metadata/" \o rating_key) >>)
        ELSE IF ~a.ret.ok
        THEN PlayLog(Out(Raised("HomeAssistantError", "Failed to play media: " \o a.ret.error),
                         Remote(a.ret.remote) \o << [failed EXCEPT !.error = a.ret.error] >>,
                         a.call, a.ret, a.session, FALSE, << >>),
                     rating_key, player_entity_id,
                     << LogRec("error", "Failed to get media URL: " \o a.ret.error) >>)
        ELSE IF ~Unpacks(a.ret.url)
        THEN PlayLog(Out(Raised("ValueError", "too many values to unpack (expected 2)"),
                         Remote(a.ret.remote), a.call, a.ret, a.session, FALSE, << >>),
                     rating_key, player_entity_id, << >>)
        ELSE PlayLog(CallPlayer(env, a, rating_key, player_entity_id, "url",
                                SubSeq(a.ret.url, 1, 1), player_ok),
                     rating_key, player_entity_id,
                     << LogRec("debug", "Resolved media URL for rating_key=" \o rating_key \o
                                            ": " \o
                                            Replace(SubSeq(a.ret.url, 1, 1), PLEX_TOKEN, "***") \o
                                            " (type: " \o SubSeq(a.ret.url, 2, 2) \o ")") >>)

\* The servers an installed entry faces: the Movies section is full, the TV
\* section holds one episode.
HassServers ==
    {p \in Servers : /\ Len(p.Movies) = MaxSectionItems
                     /\ Len(p.TV) = 1
                     /\ p.TV[1].cls = "Episode"}

\* What the user selected when the entry was created: nothing, or a player
\* and two libraries.
CreatedWith ==
    {Selection({}, << >>),
     Selection({"media_player.living_room"}, << "Music", "TV" >>)}

\* The pages the browse service is asked for: the first one and one that
\* starts at the far end.
BrowseStarts == {0, MaxStart}

\* The domain has this entry alone, or one more.
OtherEntries == {0, 1}

\* A config entry the flow has just created, not yet set up.
Init ==
    /\ plex \in HassServers
    /\ _server = None
    /\ call = NoCall
    /\ ret = NoRet
    /\ \E sel \in CreatedWith, others \in OtherEntries :
         entry = [NoEntry EXCEPT !.state = "not_loaded",
                                 !.unique_id = UniqueId("My Plex"), !.data = sel,
                                 !.others = others]
    /\ flow = NoFlow
    /\ hass_data = NoSlot
    /\ handlers = NoHandlers
    /\ svc = NoSvc
    /\ hret = NoHret
    /\ effects = << >>
    /\ logged = << >>
    /\ NoPlatform

Idle == svc = NoSvc

\* Mutant: the slot is stored before the connect is awaited.
SlotAfterConnect_StoredFirst(c, slot, selected_players, libraries) ==
    [present |-> TRUE, selected_players |-> selected_players,
     libraries |-> libraries, search_results |-> << >>]

\* "except PlexSearchAPIError: return False" comes before the slot is stored.
SlotAfterConnect(c, slot, selected_players, libraries) ==
    IF c.ok
    THEN [present |-> TRUE, selected_players |-> selected_players,
          libraries |-> libraries, search_results |-> << >>]
    ELSE slot

\* async_setup_entry: a fresh API object connects; on failure the entry is
\* not set up and nothing else is touched; on success the slot is filled, the
\* update listener is attached and the handlers are registered, closing over
\* the new API object and the selections read at the top.  _server is the
\* session of the API object the registered handlers hold (of the object
\* just built when none is registered).
SetupEntry ==
    /\ Idle
    /\ entry.state \in {"not_loaded", "setup_error"}
    /\ \E outcome \in ConnectOutcomes :
         LET selected_players == ConfiguredPlayers(entry)
             libraries == ConfiguredLibraries(entry)
             c == async_connect(outcome)
         IN  /\ svc' = [NoSvc EXCEPT !.op = "setup"]
             /\ call' = [NoCall EXCEPT !.op = "connect", !.outcome = outcome]
             /\ ret' = c
             /\ effects' = Remote(c.remote)
             /\ hret' = IF c.ok THEN Returned ELSE Raised(None, "return False")
             /\ _server' = IF c.ok THEN "PlexServer"
                           ELSE IF handlers.registered THEN _server ELSE None
             /\ entry' = IF c.ok
                         THEN [entry EXCEPT !.state = "loaded", !.listener = TRUE,
                                            !.platforms = TRUE]
                         ELSE [entry EXCEPT !.state = "setup_error"]
             /\ hass_data' = SlotAfterConnect(c, hass_data, selected_players, libraries)
             /\ handlers' = IF c.ok
                            THEN [registered |-> TRUE, selected_players |-> selected_players,
                                  libraries |-> libraries]
                            ELSE handlers
             /\ logged' = IF c.ok
                          THEN << LogRec("info", "Plex Search and Play sensors created"),
                                  LogRec("info", "Plex Search and Play integration setup complete") >>
                          ELSE << LogRec("error", "Failed to connect to Plex server: " \o c.error) >>
             /\ UNCHANGED << plex, flow, platformVars >>

\* Mutant: the services are removed whenever the platforms unloaded.
ServicesAfterUnload_Always(h, unload_ok, entries) ==
    IF unload_ok THEN NoHandlers ELSE h

\* "if len(entries) == 1: hass.services.async_remove(...)" for each of the
\* eight services; entries counts this entry too.
ServicesAfterUnload(h, unload_ok, entries) ==
    IF unload_ok /\ entries = 1 THEN NoHandlers ELSE h

\* async_unload_entry: when the platforms unload, the services go if this is
\* the domain's only entry and the slot is popped; Home Assistant then drops
\* the update listener.  Otherwise nothing is removed.
UnloadEntry ==
    /\ Idle
    /\ entry.state = "loaded"
    /\ \E unload_ok \in BOOLEAN :
         /\ svc' = [NoSvc EXCEPT !.op = "unload"]
         /\ hret' = IF unload_ok THEN Returned ELSE Raised(None, "return False")
         /\ handlers' = ServicesAfterUnload(handlers, unload_ok, entry.others + 1)
         /\ hass_data' = IF unload_ok THEN NoSlot ELSE hass_data
         /\ entry' = IF unload_ok
                     THEN [entry EXCEPT !.state = "not_loaded", !.listener = FALSE,
                                        !.platforms = FALSE]
                     ELSE [entry EXCEPT !.state = "failed_unload"]
    /\ UNCHANGED << apiVars, effects, flow, logged, platformVars >>

\* update_listener: rereads the selections and writes them to the slot.
update_listener(e, slot) ==
    [slot EXCEPT !.selected_players = ConfiguredPlayers(e),
                 !.libraries = ConfiguredLibraries(e)]

\* The options flow saves a changed selection; Home Assistant then runs the
\* entry's update listeners, which exist while the entry is loaded.
OptionsUpdate ==
    /\ Idle
    /\ \E sel \in Selections :
         /\ Options(sel) # entry.options
         /\ entry' = [entry EXCEPT !.options = Options(sel)]
         /\ hass_data' = IF entry.listener
                         THEN update_listener(entry', hass_data)
                         ELSE hass_data
    /\ UNCHANGED << apiVars, handlers, svc, hret, effects, flow, logged, platformVars >>

\* A service call runs the registered handler to its end.
Service(s, out) ==
    /\ svc' = s
    /\ hret' = out.hret
    /\ effects' = out.effects
    /\ call' = out.call
    /\ ret' = out.ret
    /\ _server' = out.session
    /\ hass_data' = IF out.stored
                    THEN [hass_data EXCEPT !.search_results = out.results]
                    ELSE hass_data
    /\ logged' = out.log
    /\ UNCHANGED << plex, entry, handlers, flow, platformVars >>

ServiceSearch ==
    /\ Idle /\ handlers.registered
    /\ \E query \in Queries, limit \in Limits, outcome \in Outcomes, fault \in BOOLEAN :
         Service([NoSvc EXCEPT !.op = "search", !.query = query, !.limit = limit],
                 handle_search(handlers.libraries,
                               HandlerEnv(_server, outcome, fault, hass_data.present),
                               query, limit))

ServiceGetOnDeck ==
    /\ Idle /\ handlers.registered
    /\ \E limit \in Limits, outcome \in Outcomes, fault \in BOOLEAN :
         Service([NoSvc EXCEPT !.op = "get_on_deck", !.limit = limit],
                 handle_get_on_deck(handlers.libraries,
                                    HandlerEnv(_server, outcome, fault, hass_data.present),
                                    limit))

ServiceGetRecentlyAdded ==
    /\ Idle /\ handlers.registered
    /\ \E limit \in Limits, outcome \in Outcomes, fault \in BOOLEAN :
         Service([NoSvc EXCEPT !.op = "get_recently_added", !.limit = limit],
                 handle_get_recently_added(handlers.libraries,
                                           HandlerEnv(_server, outcome, fault,
                                                      hass_data.present),
                                           limit))

ServicePlayMedia ==
    /\ Idle /\ handlers.registered
    /\ \E rating_key \in RatingKeyInputs, player_entity_id \in PlayerIds,
          outcome \in Outcomes, fault \in BOOLEAN, player_ok \in BOOLEAN :
         Service([NoSvc EXCEPT !.op = "play_media", !.rating_key = rating_key,
                               !.player_entity_id = player_entity_id,
                               !.player_ok = player_ok],
                 handle_play_media(handlers.selected_players,
                                   HandlerEnv(_server, outcome, fault, hass_data.present),
                                   rating_key, player_entity_id, player_ok))

ServiceBrowseLibrary ==
    /\ Idle /\ handlers.registered
    /\ \E library_name \in SectionNames, start \in BrowseStarts, limit \in Limits,
          sort \in Sorts, outcome \in Outcomes, fault \in BOOLEAN :
         Service([NoSvc EXCEPT !.op = "browse_library", !.limit = limit],
                 handle_browse_library(
                     HandlerEnv(_server, outcome, fault, hass_data.present),
                     library_name, start, limit, sort))

ServiceGetByGenre ==
    /\ Idle /\ handlers.registered
    /\ \E library_name \in SectionNames, genre \in Genres, limit \in Limits,
          outcome \in Outcomes, fault \in BOOLEAN :
         Service([NoSvc EXCEPT !.op = "get_by_genre", !.limit = limit],
                 handle_get_by_genre(
                     HandlerEnv(_server, outcome, fault, hass_data.present),
                     library_name, genre, limit))

ServiceGetCollections ==
    /\ Idle /\ handlers.registered
    /\ \E library_name \in SectionNames, outcome \in Outcomes, fault \in BOOLEAN :
         Service([NoSvc EXCEPT !.op = "get_collections"],
                 handle_get_collections(
                     HandlerEnv(_server, outcome, fault, hass_data.present),
                     library_name))

ServiceClearResults ==
    /\ Idle /\ handlers.registered
    /\ Service([NoSvc EXCEPT !.op = "clear_results"],
               handle_clear_results(HandlerEnv(_server, "ok", FALSE, hass_data.present)))

\* The caller has seen the outcome; the integration is idle again.
ServiceReturn ==
    /\ ~Idle
    /\ svc' = NoSvc
    /\ hret' = NoHret
    /\ effects' = << >>
    /\ call' = NoCall
    /\ ret' = NoRet
    /\ logged' = << >>
    /\ UNCHANGED << plex, _server, entry, hass_data, handlers, flow, platformVars >>

Next ==
    \/ SetupEntry
    \/ UnloadEntry
    \/ OptionsUpdate
    \/ ServiceSearch
    \/ ServiceGetOnDeck
    \/ ServiceGetRecentlyAdded
    \/ ServicePlayMedia
    \/ ServiceBrowseLibrary
    \/ ServiceGetByGenre
    \/ ServiceGetCollections
    \/ ServiceClearResults
    \/ ServiceReturn

Spec == Init /\ [][Next]_vars

\* ------------------------------------------------------------ config flow
ERROR_UNKNOWN == "unknown"

\* validate_input: a fresh API object connects; a PlexSearchAPIError becomes
\* InvalidAuth or CannotConnect by its kind; then the server's name and its
\* library titles are read (get_libraries answers [] when the listing fails).
validate_input(outcome, server_name, listing_ok) ==
    LET c == async_connect(outcome)
    IN  IF ~c.ok
        THEN [ok |-> FALSE,
              exc |-> IF c.error = ERROR_INVALID_AUTH THEN "InvalidAuth"
                      ELSE IF c.error = ERROR_CANNOT_CONNECT THEN "CannotConnect"
                      ELSE "PlexSearchAPIError",
              server_name |-> None, libraries |-> << >>, remote |-> c.remote]
        ELSE [ok |-> TRUE, exc |-> None, server_name |-> server_name,
              libraries |-> IF listing_ok THEN ServerSections ELSE << >>,
              remote |-> c.remote \o << "sections" >>]

\* Mutant: the two form errors are swapped.
FormError_Swapped(exc) ==
    IF exc = "CannotConnect" THEN ERROR_INVALID_AUTH
    ELSE IF exc = "InvalidAuth" THEN ERROR_CANNOT_CONNECT
    ELSE ERROR_UNKNOWN

\* The except clauses of async_step_user.
FormError(exc) ==
    IF exc = "CannotConnect" THEN ERROR_CANNOT_CONNECT
    ELSE IF exc = "InvalidAuth" THEN ERROR_INVALID_AUTH
    ELSE ERROR_UNKNOWN

\* async_step_user with user input.  The AbortFlow that
\* _abort_if_unique_id_configured raises for a unique id already in use is
\* raised inside the try block, where "except Exception" turns it into the
\* form error "unknown".
async_step_user(f0, outcome, server_name, listing_ok) ==
    LET info == validate_input(outcome, server_name, listing_ok)
        f == [f0 EXCEPT !.outcome = outcome]
    IN  IF ~info.ok
        THEN [f EXCEPT !.step = "user", !.errors = FormError(info.exc),
                       !.remote = info.remote]
        ELSE IF UniqueId(info.server_name) \in f.configured
        THEN [f EXCEPT !.step = "user", !.errors = FormError("AbortFlow"),
                       !.libraries = info.libraries,
                       !.unique_id = UniqueId(info.server_name),
                       !.remote = info.remote]
        ELSE [f EXCEPT !.step = "players", !.errors = None,
                       !.libraries = info.libraries,
                       !.unique_id = UniqueId(info.server_name),
                       !.remote = info.remote]

\* A flow is started; some servers may have an entry already.
InitFlow ==
    /\ plex \in HassServers
    /\ _server = None
    /\ call = NoCall
    /\ ret = NoRet
    /\ entry = NoEntry
    /\ hass_data = NoSlot
    /\ handlers = NoHandlers
    /\ svc = NoSvc
    /\ hret = NoHret
    /\ effects = << >>
    /\ logged = << >>
    /\ NoPlatform
    /\ \E configured \in SUBSET {UniqueId(n) : n \in ServerNames} :
         flow = [NoFlow EXCEPT !.configured = configured]

\* The user submits the server form (again).
FlowStepUser ==
    /\ flow.step \in {"none", "user"}
    /\ entry.state = "absent"
    /\ \E outcome \in ConnectOutcomes, server_name \in ServerNames,
          listing_ok \in BOOLEAN :
         flow' = async_step_user(flow, outcome, server_name, listing_ok)
    /\ UNCHANGED << apiVars, entry, hass_data, handlers, svc, hret, effects, logged,
                    platformVars >>

\* async_step_players with user input: the entry is created.
FlowStepPlayers ==
    /\ flow.step = "players"
    /\ \E sel \in Selections :
         entry' = [NoEntry EXCEPT !.state = "not_loaded",
                                  !.unique_id = flow.unique_id, !.data = sel]
    /\ flow' = [flow EXCEPT !.step = "create_entry", !.remote = << >>,
                             !.outcome = "ok"]
    /\ UNCHANGED << apiVars, hass_data, handlers, svc, hret, effects, logged,
                    platformVars >>

\* The user closes the form without finishing.
FlowCancel ==
    /\ flow.step \in {"user", "players"}
    /\ flow' = [NoFlow EXCEPT !.configured = flow.configured]
    /\ UNCHANGED << apiVars, entry, hass_data, handlers, svc, hret, effects, logged,
                    platformVars >>

NextFlow ==
    \/ FlowStepUser
    \/ FlowStepPlayers
    \/ FlowCancel

SpecFlow == InitFlow /\ [][NextFlow]_vars

\* ======================================================= sensor platform
\* Two entries, A and B, each with its own server, slot and sensors.  A's
\* server holds more items than an entry has result sensors.
ManyMovies ==
    [k \in 1..MaxResults |->
        [ratingKey |-> 300 + k, title |-> "Feature", year |-> 2000 + k,
         seasonEpisode |-> "", grandparentTitle |-> "",
         cls |-> "Movie", type |-> "movie", index |-> 0,
         complete |-> TRUE, addedAt |-> "date", words |-> {"blade"},
         onDeck |-> TRUE, genre |-> "scifi",
         part |-> "/library/parts/" \o ToString(300 + k) \o "/file.mkv",
         thumb |-> ""]]

ItemWithKey(key) == CHOOSE item \in MovieItems \cup TVItems : item.ratingKey = key

ServerOf(e) ==
    IF e = "A" THEN [Movies |-> ManyMovies, TV |-> << >>]
    ELSE [Movies |-> << ItemWithKey(101), ItemWithKey(103) >>,
          TV |-> << ItemWithKey(102) >>]

\* The state a result sensor derives from a record.
StateOf(result_data) ==
    IF result_data.media_type = MEDIA_TYPE_EPISODE
    THEN result_data.grandparent_title \o " - " \o result_data.parent_title \o
             " - " \o result_data.title
    ELSE IF result_data.year # 0
    THEN result_data.title \o " (" \o ToString(result_data.year) \o ")"
    ELSE result_data.title

\* Mutant: a sensor beyond the end of the list keeps what it shows.
ShowResults_KeepsOld(sensor, index, results) ==
    IF index < Len(results)
    THEN [native_value |-> StateOf(results[index + 1]), has_data |-> TRUE,
          result_data |-> results[index + 1]]
    ELSE sensor

\* "if self._index < len(results): ... else: ...", the body that
\* _handle_search_completed and async_update of a result sensor share.
ShowResults(sensor, index, results) ==
    IF index < Len(results)
    THEN [native_value |-> StateOf(results[index + 1]), has_data |-> TRUE,
          result_data |-> results[index + 1]]
    ELSE [native_value |-> "Empty", has_data |-> FALSE, result_data |-> NoRecord]

\* PlexSearchResultSensor._handle_search_completed
ResultSensor_handle_search_completed(sensor, index, event) ==
    ShowResults(sensor, index, event.results)

\* Mutant: a poll leaves the sensor as it is.
async_update_Idle(sensor, index, slot) == sensor

\* PlexSearchResultSensor.async_update: the sensor rereads its entry's slot.
async_update(sensor, index, slot) ==
    IF ~slot.present THEN sensor
    ELSE ShowResults(sensor, index, slot.search_results)

\* PlexSearchStatusSensor._handle_search_completed
StatusSensor_handle_search_completed(status, event) ==
    [native_value |-> "Found " \o ToString(event.result_count) \o " results",
     result_count |-> event.result_count,
     last_query |-> IF event.query = None THEN "" ELSE event.query]

\* "available" in extra_state_attributes.
available(sensor) == sensor.has_data

\* Mutant: an entity hears only the events of its own entry.
Listens_OwnEntry(listener, source) == listener = source

\* hass.bus.async_listen(EVENT_SEARCH_COMPLETED, ...): the entity of entry
\* listener hears the event whichever entry's handler (source) fired it.
Listens(listener, source) == TRUE

\* hass.bus.async_fire(EVENT_SEARCH_COMPLETED, ...): every entity that was
\* added and listens handles the event.
Deliver(sens, source, event) ==
    [e \in EntryIds |->
        IF sens[e].added /\ Listens(e, source)
        THEN [sens[e] EXCEPT
                 !.status = StatusSensor_handle_search_completed(@, event),
                 !.result = [i \in 0..(ResultSensors - 1) |->
                                ResultSensor_handle_search_completed(@[i], i, event)]]
        ELSE sens[e]]

\* The listing calls followed here, with the limits that stay below and go
\* beyond the number of result sensors.
PlatformLimits == {2, MaxResults}
NoListing ==
    [op |-> "none", entry |-> None, query |-> None, library_name |-> None,
     genre |-> None, limit |-> 0, fault |-> FALSE]
Listings(e) ==
    { [NoListing EXCEPT !.op = "search", !.entry = e, !.query = "blade",
                        !.limit = limit] :
        limit \in PlatformLimits }
    \cup { [NoListing EXCEPT !.op = "get_on_deck", !.entry = e, !.limit = MaxResults,
                             !.fault = fault] :
             fault \in BOOLEAN }
    \cup { [NoListing EXCEPT !.op = "get_recently_added", !.entry = e,
                             !.limit = MaxResults],
           [NoListing EXCEPT !.op = "browse_library", !.entry = e,
                             !.library_name = "Movies", !.limit = MaxResults],
           [NoListing EXCEPT !.op = "get_by_genre", !.entry = e,
                             !.library_name = "Movies", !.genre = "drama",
                             !.limit = MaxResults],
           [NoListing EXCEPT !.op = "get_collections", !.entry = e,
                             !.library_name = "Movies"] }

\* The handler the services of entry c.entry's setup run for the call c; the
\* entry was created without a library restriction and its API object is
\* connected.
RunListing(c, slot) ==
    LET env == [plex |-> ServerOf(c.entry), session |-> "PlexServer",
                outcome |-> "ok", fault |-> c.fault, present |-> slot.present]
    IN  CASE c.op = "search" -> handle_search(<< >>, env, c.query, c.limit)
          [] c.op = "get_on_deck" -> handle_get_on_deck(<< >>, env, c.limit)
          [] c.op = "get_recently_added" -> handle_get_recently_added(<< >>, env, c.limit)
          [] c.op = "browse_library" ->
                 handle_browse_library(env, c.library_name, 0, c.limit, None)
          [] c.op = "get_by_genre" ->
                 handle_get_by_genre(env, c.library_name, c.genre, c.limit)
          [] OTHER -> handle_get_collections(env, c.library_name)

\* The search_completed events among a handler's effects.
Completed(eff) ==
    LET IsCompleted(x) == x.kind = "event" /\ x.name = EVENT_SEARCH_COMPLETED
    IN  SelectSeq(eff, IsCompleted)

\* Nothing is set up.
InitSensors ==
    /\ plex = ServerOf("A")
    /\ _server = None
    /\ call = NoCall
    /\ ret = NoRet
    /\ entry = NoEntry
    /\ flow = NoFlow
    /\ hass_data = NoSlot
    /\ handlers = NoHandlers
    /\ svc = NoSvc
    /\ hret = NoHret
    /\ effects = << >>
    /\ logged = << >>
    /\ NoPlatform

Untouched == UNCHANGED << apiVars, entry, hass_data, handlers, flow, logged >>

\* async_setup_entry of entry e succeeds: its slot is filled, its sensors
\* are added (their first update finds the slot empty) and the services are
\* registered again, now with e's handlers.
SetupOf(e) ==
    /\ ~slots[e].present
    /\ slots' = [slots EXCEPT ![e] = [NoSlot EXCEPT !.present = TRUE]]
    /\ sensors' = [sensors EXCEPT ![e] = [NoSensors EXCEPT !.added = TRUE]]
    /\ owner' = e
    /\ svc' = [NoSvc EXCEPT !.op = "setup", !.target = e]
    /\ hret' = Returned
    /\ effects' = << >>
    /\ UNCHANGED << pending, bus >>
    /\ Untouched

PlatformSetup == \E e \in EntryIds : SetupOf(e)

\* The setup of the one entry whose overlapping calls are followed.
OverlapSetup == SetupOf("A")

\* A listing service is called: the registered handler starts and awaits
\* the API.
CallBegin ==
    /\ owner # None
    /\ Cardinality(pending) < MaxPending
    /\ \E c \in Listings(owner) \ pending :
         /\ pending' = pending \cup {c}
         /\ svc' = [NoSvc EXCEPT !.op = c.op, !.target = c.entry]
    /\ hret' = NoHret
    /\ effects' = << >>
    /\ UNCHANGED << slots, sensors, owner, bus >>
    /\ Untouched

\* Mutant: the handler is suspended between its store and its event, and
\* another call's store runs in between.
AfterStore_Suspended(c, results) ==
    IF \E d \in pending \ {c} : d.entry = c.entry THEN << >> ELSE results

\* What the slot holds when the handler fires its event: there is no await
\* between "search_results = results" and async_fire.
AfterStore(c, results) == results

\* The handler of call c from the API's answer to its end: it stores the
\* results and fires search_completed, which the sensors handle, or it fails.
Completes(c) ==
    LET out == RunListing(c, slots[c.entry])
        events == Completed(out.effects)
    IN  /\ slots' = IF out.stored
                    THEN [slots EXCEPT ![c.entry].search_results =
                                           AfterStore(c, out.results)]
                    ELSE slots
        /\ sensors' = IF events # << >>
                      THEN Deliver(sensors, c.entry, events[1])
                      ELSE sensors
        /\ bus' = IF events # << >> THEN [bus EXCEPT ![c.entry] = events[1]]
                  ELSE bus
        /\ svc' = [NoSvc EXCEPT !.op = c.op, !.target = c.entry, !.limit = c.limit]
        /\ hret' = out.hret
        /\ effects' = out.effects
        /\ UNCHANGED owner
        /\ Untouched

\* The API has answered a pending call.
CallComplete ==
    \E c \in pending :
        /\ pending' = pending \ {c}
        /\ Completes(c)

\* A listing service call that runs from its start to its end while no other
\* call is in progress.
ListingCall ==
    /\ owner # None
    /\ pending = {}
    /\ \E c \in Listings(owner) : Completes(c)
    /\ UNCHANGED pending

\* clear_results: the registered handler empties its entry's list; bus
\* notes the store in place of an event.
PlatformClear ==
    /\ owner # None
    /\ LET out == handle_clear_results(
                      [plex |-> ServerOf(owner), session |-> "PlexServer",
                       outcome |-> "ok", fault |-> FALSE,
                       present |-> slots[owner].present])
       IN  /\ slots' = IF out.stored
                       THEN [slots EXCEPT ![owner].search_results = out.results]
                       ELSE slots
           /\ bus' = IF out.stored THEN [bus EXCEPT ![owner] = Store(out.results)]
                     ELSE bus
           /\ hret' = out.hret
           /\ effects' = out.effects
    /\ svc' = [NoSvc EXCEPT !.op = "clear_results", !.target = owner]
    /\ UNCHANGED << sensors, owner, pending >>
    /\ Untouched

\* The result sensors whose polls are followed: the first and the last.
PolledIndexes == {0, ResultSensors - 1}

\* Home Assistant polls a result sensor: async_update, then the state is
\* written.
Poll ==
    \E e \in EntryIds, i \in PolledIndexes :
        /\ sensors[e].added
        /\ sensors' = [sensors EXCEPT ![e].result[i] = async_update(@, i, slots[e])]
        /\ svc' = [NoSvc EXCEPT !.op = "poll", !.target = e, !.index = i]
        /\ hret' = Returned
        /\ effects' = << >>
        /\ UNCHANGED << slots, owner, pending, bus >>
        /\ Untouched

NextSensors ==
    \/ PlatformSetup
    \/ ListingCall
    \/ PlatformClear
    \/ Poll

SpecSensors == InitSensors /\ [][NextSensors]_vars

\* Overlapping listing calls on one entry, without the polls.
NextOverlap ==
    \/ OverlapSetup
    \/ CallBegin
    \/ CallComplete
    \/ PlatformClear

SpecOverlap == InitSensors /\ [][NextOverlap]_vars

\* ================================================== properties of the API
\* The operation reached the server and no remote request of it failed.
Served(c) == (c.connected \/ c.outcome = "ok") /\ ~c.fault

RatingKeys(records) == [i \in 1..Len(records) |-> records[i].rating_key]
RawKeys(items) == [i \in 1..Len(items) |-> ToString(items[i].ratingKey)]
FirstN(s, n) == [i \in 1..Min(n, Len(s)) |-> s[i]]
Complete(item) == item.complete
Warnings(log, msg) == Cardinality({i \in 1..Len(log) : log[i] = LogRec("warning", msg)})

\* ---- C1: for every browse of an existing section, has_more is
\* ((start + limit) < total_count), total_count is the size of the section's
\* full enumeration, start and limit echo the arguments and the page holds at
\* most limit records.
C1_BrowseEnvelope ==
    (call.op = "browse" /\ Served(call) /\ SectionExists(call.library_name)) =>
        /\ ret.ok
        /\ ret.page.total_count = Len(plex[call.library_name])
        /\ ret.page.has_more = ((call.start + call.limit) < Len(plex[call.library_name]))
        /\ ret.page.start = call.start
        /\ ret.page.limit = call.limit
        /\ Len(ret.value) <= call.limit

C1_Witness ==
    /\ call.op = "browse" /\ ret.ok
    /\ call.start + call.limit = ret.page.total_count
    /\ call.limit >= 1
    /\ Len(ret.value) = call.limit

\* ---- C2: a browse returns the normalized items at positions
\* [start, start + limit) of the full enumeration, in enumeration order; with
\* no normalization failure the page holds max(0, min(limit, total - start))
\* records, and a start at or past the end gives an empty page, not an error.
ExpectedPage(all_items, start, limit) ==
    [i \in 1..Max(0, Min(limit, Len(all_items) - start)) |-> all_items[start + i]]

C2_BrowsePage ==
    (call.op = "browse" /\ Served(call) /\ SectionExists(call.library_name)) =>
        LET all_items == SectionAll(plex, call.library_name, call.sort)
            page == ExpectedPage(all_items, call.start, call.limit)
        IN  /\ ret.ok
            /\ RatingKeys(ret.value) = RawKeys(SelectSeq(page, Complete))
            /\ (\A i \in 1..Len(page) : page[i].complete) =>
                   Len(ret.value) =
                       Max(0, Min(call.limit, ret.page.total_count - call.start))
            /\ call.start >= Len(all_items) => ret.value = << >>

C2_Witness ==
    /\ call.op = "browse" /\ ret.ok
    /\ call.start > 0
    /\ call.start + call.limit > ret.page.total_count
    /\ Len(ret.value) = ret.page.total_count - call.start
    /\ Len(ret.value) > 0
    /\ ~ret.page.has_more

\* ---- C3 (as claimed): every record a browse returns carries its 0-based
\* position within the returned page in its index field.
C3_IndexIsPagePosition ==
    (call.op = "browse" /\ ret.ok) =>
        \A i \in 1..Len(ret.value) : ret.value[i].index = i - 1

\* ---- C4 (as claimed): in every list returned by search, on deck or
\* recently added, the record at position i has index = i and rating_key =
\* the string form of the remote identifier, for every media type and
\* whether or not an earlier item was dropped.
ListOps == {"search", "on_deck", "recently_added"}

C4_IndexIsListPosition ==
    (call.op \in ListOps /\ ret.ok) =>
        \A i \in 1..Len(ret.value) :
            /\ ret.value[i].index = i - 1
            /\ \E name \in DOMAIN plex : \E k \in 1..Len(plex[name]) :
                   ret.value[i].rating_key = ToString(plex[name][k].ratingKey)

\* ---- C5: batch normalization returns, in input order, exactly the items of
\* the raw batch whose normalization does not raise, each once: never more
\* records than items, one warning per dropped item, and a bad item never
\* fails the operation.
Merged(c) ==
    IF Truthy(c.library_sections)
    THEN Flatten([i \in 1..Len(c.library_sections) |->
            IF ~SectionExists(c.library_sections[i]) THEN << >>
            ELSE IF c.op = "search"
                 THEN SectionSearch(plex, c.library_sections[i], c.query, c.limit)
            ELSE IF c.op = "on_deck" THEN SectionOnDeck(plex, c.library_sections[i])
            ELSE SectionRecentlyAdded(plex, c.library_sections[i], c.limit)])
    ELSE IF c.op = "search" THEN LibrarySearch(plex, c.query, c.limit)
    ELSE IF c.op = "on_deck" THEN LibraryOnDeck(plex)
    ELSE LibraryRecentlyAdded(plex, c.limit)

\* The batch the operation hands to its normalization loop.
RawBatch(c) == FirstN(Merged(c), c.limit)

Normalizes(c, item) ==
    item.complete /\ (c.op = "recently_added" => item.addedAt # "none")

Survivors(c) ==
    LET Keep(item) == Normalizes(c, item)
    IN  SelectSeq(RawBatch(c), Keep)

C5_BatchNormalization ==
    (call.op \in ListOps /\ Served(call)) =>
        /\ ret.ok
        /\ Len(ret.value) <= Len(RawBatch(call))
        /\ RatingKeys(ret.value) = RawKeys(Survivors(call))
        /\ Warnings(ret.log, "Error formatting media item")
               = Len(RawBatch(call)) - Len(Survivors(call))
        /\ \A i, j \in 1..Len(ret.value) :
               (i < j /\ ret.value[i].rating_key = ret.value[j].rating_key) =>
                   \E m, n \in 1..Len(RawBatch(call)) :
                       /\ m < n
                       /\ RawBatch(call)[m] = RawBatch(call)[n]
                       /\ ToString(RawBatch(call)[m].ratingKey) = ret.value[i].rating_key

\* A bad item at the head of the batch is dropped and the item behind it is
\* returned.
C5_Witness ==
    /\ call.op \in ListOps /\ ret.ok
    /\ Len(RawBatch(call)) >= 2
    /\ ~Normalizes(call, RawBatch(call)[1])
    /\ Normalizes(call, RawBatch(call)[2])
    /\ Len(ret.value) >= 1
    /\ ret.value[1].rating_key = ToString(RawBatch(call)[2].ratingKey)

\* ---- C6: a search over a list of section names skips the names the server
\* does not know, with one warning each, and returns the known sections'
\* results in the order the names were given; an unknown name never makes the
\* call raise, all names unknown gives the empty list, and no list or an
\* empty list searches all sections.
Unknown(names) == {i \in 1..Len(names) : ~SectionExists(names[i])}

C6_UnknownSectionsSkipped ==
    (call.op = "search" /\ Served(call)) =>
        /\ ret.ok
        /\ Truthy(call.library_sections) =>
             /\ RatingKeys(ret.value) = RawKeys(SelectSeq(
                    FirstN(Flatten([i \in 1..Len(call.library_sections) |->
                        IF call.library_sections[i] \in {"Movies", "TV"}
                        THEN SectionSearch(plex, call.library_sections[i], call.query, call.limit)
                        ELSE << >>]), call.limit), Complete))
             /\ Warnings(ret.log, "Library section not found")
                    = Cardinality(Unknown(call.library_sections))
             /\ (\A i \in 1..Len(call.library_sections) :
                    call.library_sections[i] \notin {"Movies", "TV"}) => ret.value = << >>
        /\ ~Truthy(call.library_sections) =>
             /\ ret.remote[Len(ret.remote)] = "library.search"
             /\ RatingKeys(ret.value) = RawKeys(SelectSeq(
                    FirstN(LibrarySearch(plex, call.query, call.limit), call.limit), Complete))

\* An unknown name in front of a known one, whose results are returned.
C6_Witness ==
    /\ call.op = "search" /\ ret.ok
    /\ Len(call.library_sections) = 2
    /\ call.library_sections[1] = "Music"
    /\ call.library_sections[2] = "Movies"
    /\ Len(ret.value) >= 1

\* ---- C7: browse, by genre and collections, called with a section name the
\* server does not know, fail with the no_results error kind and return
\* nothing.
SingleSectionOps == {"browse", "by_genre", "collections"}

C7_UnknownSectionIsNoResults ==
    (/\ call.op \in SingleSectionOps
     /\ call.connected \/ call.outcome = "ok"
     /\ ~SectionExists(call.library_name)) =>
        /\ ~ret.ok
        /\ ret.error = ERROR_NO_RESULTS
        /\ ret.value = << >>
        /\ ret.page = NoPage

C7_Witness ==
    /\ call.op = "collections"
    /\ call.library_name = "Music"
    /\ ~call.fault
    /\ ret.error = ERROR_NO_RESULTS

\* ---- C8: search, on deck and recently added return at most limit records;
\* the per-section results are merged in section order and the merged list is
\* cut once to its first limit items before normalization, so an item dropped
\* by normalization still uses up one of the limit places and a later section
\* contributes only when the earlier ones returned fewer than limit items.
PerSection(c, i) ==
    IF ~SectionExists(c.library_sections[i]) THEN << >>
    ELSE IF c.op = "search"
         THEN SectionSearch(plex, c.library_sections[i], c.query, c.limit)
    ELSE IF c.op = "on_deck" THEN SectionOnDeck(plex, c.library_sections[i])
    ELSE SectionRecentlyAdded(plex, c.library_sections[i], c.limit)

RECURSIVE CountBefore(_, _)
\* How many raw items the sections named before position i returned.
CountBefore(c, i) == IF i <= 1 THEN 0 ELSE CountBefore(c, i - 1) + Len(PerSection(c, i - 1))

C8_LimitAfterMerge ==
    (call.op \in ListOps /\ Served(call)) =>
        /\ ret.ok
        /\ Len(ret.value) <= call.limit
        /\ Len(ret.value) + Warnings(ret.log, "Error formatting media item")
               = Min(call.limit, Len(Merged(call)))
        /\ (call.op = "search" /\ Truthy(call.library_sections)) =>
              \A i \in 1..Len(call.library_sections) :
                  /\ Len(PerSection(call, i)) <= call.limit
                  /\ (\E k \in 1..Len(ret.value), m \in 1..Len(PerSection(call, i)) :
                         /\ ret.value[k].rating_key = ToString(PerSection(call, i)[m].ratingKey)
                         /\ \A j \in 1..(i - 1) :
                                call.library_sections[j] # call.library_sections[i])
                     => CountBefore(call, i) < call.limit

\* Two sections are searched, the merged list is longer than limit and is cut.
C8_Witness ==
    /\ call.op = "search" /\ ret.ok
    /\ Len(call.library_sections) = 2
    /\ call.library_sections[1] = "Movies"
    /\ call.library_sections[2] = "TV"
    /\ Len(Merged(call)) > call.limit
    /\ Len(PerSection(call, 2)) >= 1
    /\ Len(ret.value) = call.limit
    /\ call.limit >= 2

\* ----------------------------------------------------- service handlers

Effects(kind) == SelectSeq(effects, LAMBDA e : e.kind = kind)
Fired(name) == SelectSeq(effects, LAMBDA e : e.kind = "event" /\ e.name = name)
NotInList(player_entity_id) ==
    "Player " \o player_entity_id \o " is not in the selected players list"

Rejected ==
    /\ hret = Raised("HomeAssistantError", NotInList(svc.player_entity_id))
    /\ call = NoCall

\* C10: once the options hold a selection (the update listener has run if
\* the entry was loaded), a play_media call is rejected for the allow-list
\* exactly when the entry's current player selection is non-empty and lacks
\* the target, and a search / get_on_deck / get_recently_added call queries
\* the entry's current library selection.
C10_OptionsTakeEffect ==
    (entry.state = "loaded" /\ entry.options.set)
    => /\ svc.op = "play_media"
          => (Rejected <=> ~PlayerAllowed(ConfiguredPlayers(entry), svc.player_entity_id))
       /\ svc.op \in {"search", "get_on_deck", "get_recently_added"}
          => call.library_sections = LibrariesArg(ConfiguredLibraries(entry))

\* --------------------------------------------------------------- playback

\* The handler resolved (or tried to resolve) the identifier on the server.
Resolving == svc.op = "play_media" /\ call.op = "media_url"
KnownKey(rating_key) == IsInt(rating_key) /\ HasItem(plex, int(rating_key))
MediaTypeOf(type) ==
    IF type = "track" THEN "music"
    ELSE IF type \in {"movie", "episode"} THEN "video" ELSE "url"

\* C11: play_media for an allowed player that is not a Plex-integration
\* player and an identifier whose item has a playable part (the requests
\* and the player service working) returns normally, having called
\* media_player.play_media exactly once with the token-bearing URL of the
\* item's first part as content id and the content type of the item's kind,
\* and fired playback_started after it.
C11_PlayResolvedUrl ==
    (/\ Resolving /\ ~call.fault /\ svc.player_ok
     /\ KnownKey(svc.rating_key)
     /\ fetchItem(plex, int(svc.rating_key)).part # "")
    => LET item == fetchItem(plex, int(svc.rating_key))
           url == PLEX_URL \o item.part \o "?X-Plex-Token=" \o PLEX_TOKEN
       IN  /\ hret = Returned
           /\ Len(Effects("player")) = 1
           /\ Effects("player")[1].player = svc.player_entity_id
           /\ Effects("player")[1].media_url = url
           /\ Effects("player")[1].content_type = MediaTypeOf(item.type)
           /\ Len(effects) > 1
           /\ effects[Len(effects)].name = EVENT_PLAYBACK_STARTED
           /\ effects[Len(effects) - 1].kind = "player"

\* C12: when play_media resolves an identifier (a number) that no item of
\* the server has, the resolver fails with the no_results error and yields
\* no URL; the handler fires playback_failed once, calls no media player and
\* ends in an error.
C12_MissingItemFailsPlayback ==
    (/\ Resolving
     /\ IsInt(svc.rating_key)
     /\ ~HasItem(plex, int(svc.rating_key)))
    => /\ ~ret.ok
       /\ ret.error = ERROR_NO_RESULTS
       /\ ret.url = ""
       /\ Len(Fired(EVENT_PLAYBACK_FAILED)) = 1
       /\ Fired(EVENT_PLAYBACK_FAILED)[1].error = ERROR_NO_RESULTS
       /\ Fired(EVENT_PLAYBACK_STARTED) = << >>
       /\ Effects("player") = << >>
       /\ hret = Raised("HomeAssistantError", "Failed to play media: " \o ERROR_NO_RESULTS)

\* The item was looked up on the server and is not there.
C12_Witness ==
    /\ Resolving
    /\ svc.rating_key = "999"
    /\ ~call.fault
    /\ ret.remote = << "fetchItem" >>
    /\ Len(Fired(EVENT_PLAYBACK_FAILED)) = 1
    /\ hret.done /\ ~hret.ok

\* C13: resolving an item that exists but has no playable part fails with an
\* error that differs from the one resolving a missing item fails with.
C13_NoPartsDistinctFromMissing ==
    (/\ call.op = "media_url" /\ ~call.fault
     /\ KnownKey(call.rating_key)
     /\ fetchItem(plex, int(call.rating_key)).part = "")
    => /\ ~ret.ok
       /\ ret.error # async_get_media_url(plex, "999", FALSE).error

\* ------------------------------------------------------------ connecting

\* C14: async_connect answers a rejected token with invalid_auth and every
\* other failure with cannot_connect; after a failed connect the user step
\* of the config flow shows the form again with the error of the same kind
\* and no entry exists.
C14_ConnectErrorKinds ==
    /\ \A outcome \in ConnectOutcomes \ {"ok"} :
          /\ ~async_connect(outcome).ok
          /\ async_connect(outcome).error =
                 IF outcome = "Unauthorized" THEN ERROR_INVALID_AUTH
                 ELSE ERROR_CANNOT_CONNECT
    /\ flow.outcome # "ok"
       => /\ flow.step = "user"
          /\ flow.errors = IF flow.outcome = "Unauthorized" THEN ERROR_INVALID_AUTH
                            ELSE ERROR_CANNOT_CONNECT
          /\ flow.remote = << "connect" >>
          /\ entry.state = "absent"
    /\ flow.errors \in {ERROR_INVALID_AUTH, ERROR_CANNOT_CONNECT} => flow.outcome # "ok"

\* The form is shown again for a rejected token.
C14_Witness ==
    /\ flow.step = "user"
    /\ flow.outcome = "Unauthorized"
    /\ flow.errors = ERROR_INVALID_AUTH
    /\ flow.remote = << "connect" >>
    /\ entry.state = "absent"

\* C15: when the connect of async_setup_entry fails, setup returns False and
\* the entry has no slot in hass.data, no forwarded sensor platform and no
\* update listener, and the setup has registered no service handler.
C15_FailedSetupLeavesNothing ==
    [][(svc'.op = "setup" /\ ~ret'.ok)
       => /\ hret' = Raised(None, "return False")
          /\ entry'.state = "setup_error"
          /\ hass_data' = NoSlot
          /\ ~entry'.platforms
          /\ ~entry'.listener
          /\ handlers' = handlers]_vars

\* Setup met a rejected token.
C15_Witness ==
    /\ svc.op = "setup"
    /\ call.outcome = "Unauthorized"
    /\ ret.error = ERROR_INVALID_AUTH
    /\ ~hret.ok
    /\ ~hass_data.present

\* ---------------------------------------------------------------- session

\* The services that query the server.
QueryServices ==
    {"search", "browse_library", "get_on_deck", "get_recently_added",
     "get_by_genre", "get_collections", "play_media"}
Requests(remote) == {remote[i] : i \in 1..Len(remote)}

\* C16: a query service call that fails leaves the API session and the
\* entry's stored search_results as they were before the call, and a query
\* service call made with a session present keeps that session and makes no
\* connect request.
C16_FailureKeepsSession ==
    [][(svc.op = "none" /\ svc'.op \in QueryServices)
       => /\ ~hret'.ok => /\ _server' = _server
                           /\ hass_data'.search_results = hass_data.search_results
          /\ _server # None => /\ _server' = _server
                                /\ "connect" \notin Requests(ret'.remote)]_vars

\* A search failed while results of an earlier call were stored.
C16_Witness ==
    /\ svc.op = "search"
    /\ ~hret.ok
    /\ ~ret.ok
    /\ _server = "PlexServer"
    /\ hass_data.search_results # << >>

\* The query operations of the API object.
QueryOps ==
    {"search", "browse", "on_deck", "recently_added", "by_genre", "collections",
     "media_url"}
Count(remote, request) == Len(SelectSeq(remote, LAMBDA r : r = request))

\* C17: a query operation invoked without a session sends exactly one
\* connect request, and sends it first; when that connect fails the
\* operation fails with the connect's own error kind (cannot_connect or
\* invalid_auth), sends nothing else and leaves the session absent; when it
\* succeeds the session is kept.  A query operation invoked with a session
\* sends no connect request.
C17_LazyConnect ==
    call.op \in QueryOps
    => /\ ~call.connected
          => /\ Count(ret.remote, "connect") = 1
             /\ ret.remote[1] = "connect"
             /\ call.outcome # "ok"
                => /\ ~ret.ok
                   /\ ret.error = async_connect(call.outcome).error
                   /\ ret.error \in {ERROR_CANNOT_CONNECT, ERROR_INVALID_AUTH}
                   /\ ret.remote = << "connect" >>
                   /\ _server = None
             /\ call.outcome = "ok" => _server = "PlexServer"
       /\ call.connected
          => /\ Count(ret.remote, "connect") = 0
             /\ _server = "PlexServer"

\* A browse without a session met a rejected token.
C17_Witness ==
    /\ call.op = "browse"
    /\ ~call.connected
    /\ call.outcome = "Unauthorized"
    /\ ret.error = ERROR_INVALID_AUTH
    /\ _server = None

\* C18: with a session in hand, a query operation that fails fails with the
\* error kind no_results, whatever went wrong: a failing request, an unknown
\* section, a missing item, an item without parts or a rating key that is
\* not a number.
C18_FailuresAreNoResults ==
    (/\ call.op \in QueryOps
     /\ call.connected \/ call.outcome = "ok"
     /\ ~ret.ok)
    => /\ ret.error = ERROR_NO_RESULTS
       /\ ret.value = << >>
       /\ ret.url = ""

\* A rating key that is not a number, resolved on an existing session.
C18_Witness ==
    /\ call.op = "media_url"
    /\ call.connected
    /\ call.rating_key = "abc"
    /\ ~ret.ok
    /\ ret.error = ERROR_NO_RESULTS

\* C19: every remote request made for a service call or a config flow step
\* runs on the executor.
C19_RemoteCallsOnExecutor ==
    /\ \A i \in 1..Len(ret.remote) : RunsOn(call.op, ret.remote[i]) = "executor"
    /\ \A i \in 1..Len(flow.remote) : RunsOn("config_flow", flow.remote[i]) = "executor"

\* ----------------------------------------------------------------- events

\* C20: a search service call fires search_started {query, limit} before
\* anything else, and then exactly one more event: search_completed, whose
\* result_count is the length of its results and which comes right after
\* those results were stored in the entry's slot, or search_failed {query,
\* error}, after which the call ends in an error.
C20_SearchEvents ==
    svc.op = "search"
    => LET ev == Effects("event")
       IN  /\ Len(ev) = 2
           /\ effects[1] = ev[1]
           /\ ev[1] = [NoEffect EXCEPT !.kind = "event", !.name = EVENT_SEARCH_STARTED,
                                        !.query = svc.query, !.limit = svc.limit]
           /\ ev[2].name \in {EVENT_SEARCH_COMPLETED, EVENT_SEARCH_FAILED}
           /\ ev[2].name = EVENT_SEARCH_COMPLETED
              => /\ ev[2].result_count = Len(ev[2].results)
                 /\ effects[Len(effects)] = ev[2]
                 /\ effects[Len(effects) - 1] = Store(ev[2].results)
                 /\ hass_data.search_results = ev[2].results
                 /\ hret = Returned
           /\ ev[2].name = EVENT_SEARCH_FAILED
              => /\ ev[2].query = svc.query
                 /\ ev[2].error = ret.error
                 /\ ~hret.ok

\* ------------------------------------------------------------------- C21
\* The number of places at which t occurs in s.
Occurrences(s, t) ==
    Cardinality({ i \in 1..(Len(s) - Len(t) + 1) : SubSeq(s, i, i + Len(t) - 1) = t })

\* The raw thumbnail path behind a returned record: of the item, or of the
\* collection, with the record's rating key.
RawThumb(c, rec) ==
    IF c.op = "collections"
    THEN LET cs == SectionCollections(c.library_name)
         IN  cs[CHOOSE i \in 1..Len(cs) : ToString(cs[i].ratingKey) = rec.rating_key].thumb
    ELSE fetchItem(plex, int(rec.rating_key)).thumb

\* C21: the thumbnail URL of a returned record is "" exactly when the raw
\* item has no thumbnail path or an empty one; otherwise it is the server
\* address followed by the raw path and the token query parameter, the token
\* parameter occurs in it exactly once, and building the URL again from the
\* same raw path gives the same URL.
C21_ThumbUrl ==
    Served(call) =>
        \A i \in 1..Len(ret.value) :
            LET rec == ret.value[i]
                raw == RawThumb(call, rec)
            IN  /\ (rec.thumb = "") <=> (raw = None \/ raw = "")
                /\ rec.thumb # "" =>
                      /\ rec.thumb = PLEX_URL \o raw \o "?X-Plex-Token=" \o PLEX_TOKEN
                      /\ Occurrences(rec.thumb, "X-Plex-Token=") = 1
                      /\ Occurrences(rec.thumb, PLEX_TOKEN) = 1
                /\ _get_thumb_url([thumb |-> raw]) = rec.thumb

\* A call that returned a record with a thumbnail URL, one of an item whose
\* thumbnail path is empty and one of an item that has no such attribute.
C21_Witness ==
    /\ Served(call)
    /\ \E i, j, k \in 1..Len(ret.value) :
          /\ ret.value[i].thumb # ""
          /\ RawThumb(call, ret.value[j]) = ""
          /\ RawThumb(call, ret.value[k]) = None

\* ------------------------------------------------------------------- C22
\* C22: a config flow whose server has the identifier of an entry that is
\* already configured is aborted, and no entry is created by it; the
\* identifier is the friendly name in lower case with "_" for each space.
C22_DuplicateAborted ==
    /\ flow.unique_id # None => \E n \in ServerNames : flow.unique_id = UniqueId(n)
    /\ UniqueId("My Plex") = "my_plex"
    /\ (flow.unique_id \in flow.configured)
       => /\ flow.step = "abort"
          /\ entry.state = "absent"

\* ------------------------------------------------------------------- C23
\* C23: an unload whose platform unload succeeds removes the entry's slot,
\* and removes the domain's services exactly when the entry is the only
\* configured one; an unload whose platform unload fails removes neither the
\* slot nor any service.  The entry has a slot exactly from its successful
\* setup to its successful unload.
C23_UnloadRemovesSlot ==
    /\ [](hass_data.present <=> entry.state \in {"loaded", "failed_unload"})
    /\ [][(svc'.op = "unload" /\ svc.op # "unload")
           => IF hret' = Returned
              THEN /\ hass_data.present /\ hass_data' = NoSlot
                   /\ handlers.registered
                   /\ ~handlers'.registered <=> entry.others = 0
                   /\ handlers'.registered => handlers' = handlers
              ELSE /\ hass_data' = hass_data
                   /\ handlers' = handlers]_vars
    /\ [][(svc'.op = "setup" /\ svc.op # "setup")
           => (hass_data'.present <=> hret' = Returned)]_vars

\* The entry was unloaded while another entry of the domain is configured:
\* its slot is gone and the services are still registered.
C23_Witness ==
    /\ svc.op = "unload"
    /\ hret = Returned
    /\ entry.others = 1
    /\ hass_data = NoSlot
    /\ handlers.registered

\* ------------------------------------------------------------------- C24
\* C24: no log record contains the access token, neither one written by a
\* service handler or by the setup nor one written by the API object, on any
\* path: also when the call resolved a media URL, and when it stored records
\* whose thumbnail URLs carry the token.
C24_NoTokenInLogs ==
    /\ \A i \in 1..Len(logged) : ~Contains(logged[i].msg, PLEX_TOKEN)
    /\ \A i \in 1..Len(ret.log) : ~Contains(ret.log[i].msg, PLEX_TOKEN)

\* A listing call has stored a record whose thumbnail URL carries the token
\* and logged its completion.
C24_Witness ==
    /\ svc.op \in QueryServices
    /\ hret = Returned
    /\ Len(logged) = 2
    /\ \E i \in 1..Len(hass_data.search_results) :
          Contains(hass_data.search_results[i].thumb, PLEX_TOKEN)

\* A play_media call has resolved a media URL that carries the token and
\* logged on the way.
C24_ResolvedUrlWitness ==
    /\ svc.op = "play_media"
    /\ ret.ok
    /\ Contains(ret.url, PLEX_TOKEN)
    /\ logged # << >>

\* ------------------------------------------------------------------- C25
\* C25: a play_media call fires exactly one of playback_started and
\* playback_failed: playback_started after the media player call has
\* returned, playback_failed whenever playback did not start.
C25_OnePlaybackEvent ==
    (svc.op = "play_media" /\ hret.done)
    => /\ Len(Fired(EVENT_PLAYBACK_STARTED)) + Len(Fired(EVENT_PLAYBACK_FAILED)) = 1
       /\ Fired(EVENT_PLAYBACK_STARTED) # << >>
          => /\ hret = Returned
             /\ svc.player_ok
             /\ effects[Len(effects)].name = EVENT_PLAYBACK_STARTED
             /\ effects[Len(effects) - 1].kind = "player"
       /\ hret # Returned => Len(Fired(EVENT_PLAYBACK_FAILED)) = 1

\* ------------------------------------------------------------------- C26
\* The record was made from an item or a collection of entry e's server.
FromServer(e, rec) ==
    \/ \E i \in 1..Len(AllItems(ServerOf(e))) :
           ToString(AllItems(ServerOf(e))[i].ratingKey) = rec.rating_key
    \/ rec.media_type = "collection"

\* The listing services.
ListingOps ==
    {"search", "browse_library", "get_on_deck", "get_recently_added",
     "get_by_genre", "get_collections"}

\* C26: with two entries, the records in an entry's slot and the records
\* its result sensors show all come from that entry's own server, and a
\* listing call served by one entry's handler changes neither the slot nor
\* the status or result sensors of the other entry.
C26_EntriesIsolated ==
    /\ [](\A e \in EntryIds :
            /\ \A i \in 1..Len(slots[e].search_results) :
                   FromServer(e, slots[e].search_results[i])
            /\ \A i \in 0..(ResultSensors - 1) :
                   sensors[e].result[i].has_data
                   => FromServer(e, sensors[e].result[i].result_data))
    /\ [][svc'.op \in ListingOps
           => \A e \in EntryIds \ {svc'.target} :
                  /\ slots'[e] = slots[e]
                  /\ sensors'[e] = sensors[e]]_vars

\* ------------------------------------------------------------------- C27
\* C27: while the domain's services are registered, the entry whose API
\* object and slot their handlers use is set up and has its slot, and no
\* service call fails on a missing slot.
C27_HandlersHaveSlot ==
    /\ handlers.registered
       => /\ entry.state \in {"loaded", "failed_unload"}
          /\ hass_data.present
    /\ hret.exc # "KeyError"

\* ------------------------------------------------------------------- C28
\* C28: with listing calls overlapping on one entry, a call that completes
\* stores its results and fires search_completed with nothing in between, so
\* the entry's search_results are the results of the search_completed event
\* its handlers fired last, as long as clear_results has not run since.
C28_LastCompleterWins ==
    /\ \A e \in EntryIds :
          bus[e].kind = "event"
          => /\ slots[e].present
             /\ slots[e].search_results = bus[e].results
             /\ bus[e].result_count = Len(bus[e].results)
    /\ (svc.op \in ListingOps /\ hret.ok)
       => /\ Len(effects) >= 2
          /\ effects[Len(effects)] = bus[svc.target]
          /\ effects[Len(effects) - 1] = Store(bus[svc.target].results)

\* A call has completed and stored a non-empty list while another call on
\* the same entry, begun before, still awaits its API result.
C28_Witness ==
    /\ svc.op \in ListingOps
    /\ hret.ok
    /\ \E d \in pending : d.entry = svc.target
    /\ bus[svc.target].kind = "event"
    /\ slots[svc.target].search_results = bus[svc.target].results
    /\ slots[svc.target].search_results # << >>

\* ------------------------------------------------------------------- C29
\* The results of the search_completed event the call just served fired.
JustFired == effects[Len(effects)].results

\* C29: after a search_completed event with results R, the result sensor
\* with index i of the entry whose handler fired it holds the record at
\* position i of R and is available when i < Len(R), and is "Empty",
\* without a record and unavailable when i >= Len(R); so no sensor shows a
\* record of an earlier list, and the records from position 6 on are shown
\* by no sensor.
C29_SensorsShowEvent ==
    (svc.op \in ListingOps /\ hret.ok)
    => LET R == JustFired
           shown == sensors[svc.target].result
       IN  /\ effects[Len(effects)].name = EVENT_SEARCH_COMPLETED
           /\ DOMAIN shown = 0..(ResultSensors - 1)
           /\ \A i \in 0..(ResultSensors - 1) :
                 IF i < Len(R)
                 THEN /\ shown[i].result_data = R[i + 1]
                      /\ available(shown[i])
                      /\ shown[i].native_value = StateOf(R[i + 1])
                 ELSE /\ shown[i].native_value = "Empty"
                      /\ ~available(shown[i])
                      /\ shown[i].result_data = NoRecord
           /\ \A j \in (ResultSensors + 1)..Len(R) :
                 \A i \in 0..(ResultSensors - 1) : shown[i].result_data # R[j]

\* An event with two results: the second sensor shows the second record,
\* the last sensor is "Empty".
C29_Witness ==
    /\ svc.op \in ListingOps
    /\ hret.ok
    /\ Len(JustFired) = 2
    /\ sensors[svc.target].result[1].result_data = JustFired[2]
    /\ sensors[svc.target].result[ResultSensors - 1].native_value = "Empty"
    /\ bus[svc.target].results = JustFired

\* An event with more results than there are sensors.
C29_OverflowWitness ==
    /\ svc.op \in ListingOps
    /\ hret.ok
    /\ Len(JustFired) > ResultSensors
    /\ sensors[svc.target].result[ResultSensors - 1].result_data = JustFired[ResultSensors]

\* ------------------------------------------------------------------- C30
\* The sensor a poll step updated.
Polled == sensors'[svc'.target].result[svc'.index]

\* C30: clear_results empties the entry's stored search_results, fires no
\* event and changes no sensor; a poll (async_update) of a result sensor
\* makes it show the stored list at its index, which after clear_results
\* is "Empty" and unavailable, and changes nothing else; the status sensor
\* keeps its result count and query through both: it changes only when a
\* listing call fires search_completed (or the platform is set up).
C30_ClearThenPoll ==
    [][/\ (svc'.op = "clear_results" /\ hret'.ok)
          => /\ slots'[svc'.target].search_results = << >>
             /\ \A k \in 1..Len(effects') : effects'[k].kind # "event"
             /\ sensors' = sensors
       /\ (svc'.op = "poll" /\ slots[svc'.target].present)
          => /\ Polled = ShowResults(sensors[svc'.target].result[svc'.index],
                                      svc'.index,
                                      slots[svc'.target].search_results)
             /\ (slots[svc'.target].search_results = << >>
                 => /\ Polled.native_value = "Empty"
                    /\ ~available(Polled))
             /\ sensors'[svc'.target].status = sensors[svc'.target].status
             /\ \A i \in (0..(ResultSensors - 1)) \ {svc'.index} :
                   sensors'[svc'.target].result[i] = sensors[svc'.target].result[i]
             /\ \A e \in EntryIds \ {svc'.target} : sensors'[e] = sensors[e]
             /\ slots' = slots
       /\ \A e \in EntryIds :
             sensors'[e].status # sensors[e].status
             => \/ svc'.op \in ListingOps /\ hret'.ok
                \/ svc'.op = "setup"
      ]_vars

\* After clear_results and a poll of the first sensor: that sensor is
\* "Empty", the status sensor still reports the count and the query of the
\* last event.
C30_Witness ==
    /\ svc.op = "poll"
    /\ svc.index = 0
    /\ slots[svc.target].present
    /\ slots[svc.target].search_results = << >>
    /\ bus[svc.target].kind = "store"
    /\ sensors[svc.target].result[0].native_value = "Empty"
    /\ ~available(sensors[svc.target].result[0])
    /\ sensors[svc.target].status.result_count > 0
    /\ sensors[svc.target].status.last_query = "blade"

\* After clear_results and before a poll: the first sensor still shows its
\* record.
C30_StaleWitness ==
    /\ svc.op = "clear_results"
    /\ hret.ok
    /\ slots[svc.target].search_results = << >>
    /\ available(sensors[svc.target].result[0])
    /\ sensors[svc.target].status.result_count > 0
====
